---- MODULE Spec2Model ----
(***************************************************************************)
(* The historical metric store of git-leaderboard: RepoDB (src/db.py).     *)
(* The tables of the SQLite schema are the state; one action per call of   *)
(* RepoDB(...) (a new ingestion pass) and of upsert_from_github_nodes (one *)
(* batch).  The SQL statements are translated statement by statement, in   *)
(* the order executemany runs them, with the UNIQUE / PRIMARY KEY checks   *)
(* of the schema aborting the enclosing `with self.conn:` transaction.     *)
(***************************************************************************)
EXTENDS Integers, Sequences, FiniteSets, TLC

\* ---------------------------------------------------------------- bounds
MaxRepoId == 2
MaxBatchLen == 2
MaxRuns == 3

\* ------------------------------------------------------- input universe
\* NULL of a nullable INTEGER column / Python None of an Optional[int].
Null == -1

RepoIds == 1..MaxRepoId

\* A text (Python str, SQLite TEXT) is the sequence of its character codes;
\* NoText is None / NULL of an Optional[str].
NoText == <<Null>>

\* A nameWithOwner string: a base text followed by zero or more
\* "-renamed-<id>" suffixes (the only string operation of the code is
\* name_with_owner || '-renamed-' || id).
Name(b, r) == [base |-> b, ren |-> r]

\* "a" and "a-renamed-1"
UpstreamNames == {Name(<<97>>, <<>>), Name(<<97>>, <<1>>)}

\* (stars, forks, watchers, diskUsage) as delivered by upstream.
Quad(s, f, w, d) == [stars |-> s, forks |-> f, watchers |-> w, disk_usage |-> d]

UpstreamQuads == {Quad(1, 0, 0, Null), Quad(1, 0, 0, 5)}

\* {"t"}
UpstreamTopicSets == {{<<116>>}}

\* description and primaryLanguage.name of the well-formed test nodes.
UpstreamDescriptions == {NoText}

UpstreamLanguages == {NoText}

\* One node of the list handed to upsert_from_github_nodes.
Snapshots ==
    [databaseId : RepoIds, nameWithOwner : UpstreamNames,
     quad : UpstreamQuads, topics : UpstreamTopicSets,
     description : UpstreamDescriptions, primaryLanguage : UpstreamLanguages]

Batches == UNION {[1..n -> Snapshots] : n \in 1..MaxBatchLen}

\* ------------------------------------------------------------- the state
VARIABLES
    repo,               \* table repo: id -> name_with_owner (rows present)
    description,        \* table repo, column description: id -> text
    fetch_run,          \* table fetch_run: the set of run ids
    fetched_at,         \* table fetch_run, column fetched_at: run id -> unix time
    repo_latest,        \* table repo_latest: repo_id -> row
    repo_metrics_hist,  \* table repo_metrics_hist: set of rows
    repo_topic_latest,  \* table repo_topic_latest: set of <<repo_id, topic>>
    run_id,             \* RepoDB._run_id (Null = None)
    processed,          \* RepoDB._processed_repo_ids
    last,               \* history: the last call, [outcome, applied]
    ingestedIn,         \* history: repo id -> the runs whose batch with that repo was applied
    displaced,          \* history: ids whose name another id's snapshot took since their last ingestion
    now,                \* the wall clock, int(datetime.now(timezone.utc).timestamp())
    response_cache,     \* app.py response_cache: the OrderedDict as a sequence of [key, value]
    resp,               \* the response of the last request served
    scan,               \* history: the pages a client has read so far of one leaderboard
    used,               \* history: the keys of response_cache, the least recently used first
    handlers,           \* the handler threads inside LRUCache.get and LRUCache.set
    pending,            \* the batch whose first transaction is committed and whose second is not
    live,               \* the deployed site: repos.db, the serving process
    crawl               \* crawl() and execute_query: their local variables and position

vars == <<repo, description, fetch_run, fetched_at, repo_latest, repo_metrics_hist,
          repo_topic_latest, run_id, processed, last, ingestedIn, displaced,
          now, response_cache, resp, scan, used, handlers, pending, live, crawl>>

\* The variables that the ingestion and query actions leave alone.
aside == <<used, handlers, pending, live, crawl>>

\* The database as one value, for the operators that model transactions.
DB == [repo |-> repo, description |-> description,
       fetch_run |-> fetch_run, fetched_at |-> fetched_at,
       repo_latest |-> repo_latest,
       repo_metrics_hist |-> repo_metrics_hist,
       repo_topic_latest |-> repo_topic_latest]

\* f with the row of key k inserted or replaced.
With(f, k, v) == [x \in DOMAIN f \cup {k} |-> IF x = k THEN v ELSE f[x]]

\* ------------------------------------------------------------ begin_run
Max(S) == CHOOSE x \in S : \A y \in S : y <= x

\* cur.lastrowid of INSERT INTO fetch_run: the largest rowid plus one.
NextRowId(S) == IF S = {} THEN 1 ELSE Max(S) + 1

\* Mutant: no early return, a new run id on every call.
begin_run_everyCall(rid, runs) == NextRowId(runs)

\* begin_run: the run id the call returns.
begin_run(rid, runs) == IF rid # Null THEN rid ELSE NextRowId(runs)

\* begin_run: the fetch_run table after the call.
begin_run_table(rid, runs) == IF rid # Null THEN runs ELSE runs \cup {NextRowId(runs)}

\* begin_run: the fetched_at column after the call, t the clock's reading.
begin_run_fetched_at(rid, runs, fa, t) ==
    IF rid # Null THEN fa ELSE With(fa, NextRowId(runs), t)

\* ------------------------------------- upsert_from_github_nodes, filter
\* Lines 284-292: keep a node when its id is a positive int not yet
\* processed in this pass; the id is marked processed at once.
RECURSIVE FreshNodes(_, _, _, _)
\* Mutant: the test against _processed_repo_ids left out.
FreshNodes_noDedup(nodes, i, seen, acc) ==
    IF i > Len(nodes) THEN [fresh |-> acc, seen |-> seen]
    ELSE LET n == nodes[i] IN
         IF ~(n.databaseId > 0)
         THEN FreshNodes(nodes, i + 1, seen, acc)
         ELSE FreshNodes(nodes, i + 1, seen \cup {n.databaseId}, Append(acc, n))

FreshNodes(nodes, i, seen, acc) ==
    IF i > Len(nodes) THEN [fresh |-> acc, seen |-> seen]
    ELSE LET n == nodes[i] IN
         IF ~(n.databaseId > 0) \/ n.databaseId \in seen
         THEN FreshNodes(nodes, i + 1, seen, acc)
         ELSE FreshNodes(nodes, i + 1, seen \cup {n.databaseId}, Append(acc, n))

\* ---------------------------------- first transaction (lines 306-342)
\* SELECT id FROM repo WHERE name_with_owner = ? AND id != ?
\* Mutant: the WHERE clause matches the name as a prefix
\* (name_with_owner LIKE ? || '%'), so a row renamed earlier matches again.
ConflictIds_prefix(repoTbl, name, id) ==
    {m \in DOMAIN repoTbl : repoTbl[m].base = name.base /\ m # id}

ConflictIds(repoTbl, name, id) ==
    {m \in DOMAIN repoTbl : repoTbl[m] = name /\ m # id}

\* executemany of the two DELETEs: the repo table does not change while
\* they run, so every parameter pair sees the same repo rows.
AllConflictIds(repoTbl, fresh) ==
    UNION {ConflictIds(repoTbl, fresh[i].nameWithOwner, fresh[i].databaseId) :
           i \in 1..Len(fresh)}

DeleteConflictLatest(latestTbl, repoTbl, fresh) ==
    [m \in DOMAIN latestTbl \ AllConflictIds(repoTbl, fresh) |-> latestTbl[m]]

\* Mutant: the DELETE FROM repo_topic_latest of the conflict phase left out.
DeleteConflictTopics_none(topicTbl, repoTbl, fresh) == topicTbl

DeleteConflictTopics(topicTbl, repoTbl, fresh) ==
    {p \in topicTbl : p[1] \notin AllConflictIds(repoTbl, fresh)}

\* Mutant: the suffix is the id of the incoming snapshot.
RenamedName_incoming(name, rowId, incomingId) == Name(name.base, Append(name.ren, incomingId))

\* name_with_owner || '-renamed-' || id, with id the column of the row
\* being updated.
RenamedName(name, rowId, incomingId) == Name(name.base, Append(name.ren, rowId))

\* Mutant: the column declared without UNIQUE.
NameFree_noConstraint(repoTbl, id, name) == TRUE

\* UNIQUE(name_with_owner): may row `id` carry `name`?
NameFree(repoTbl, id, name) ==
    \A x \in DOMAIN repoTbl : x # id => repoTbl[x] # name

\* One UPDATE repo SET name_with_owner = ... WHERE name_with_owner = ? AND id != ?
\* Result: [ok, repo]; ok = FALSE is sqlite3.IntegrityError.
RenameConflict(repoTbl, name, id) ==
    LET losers == ConflictIds(repoTbl, name, id) IN
    IF losers = {} THEN [ok |-> TRUE, repo |-> repoTbl]
    ELSE LET m == CHOOSE x \in losers : TRUE
             new == RenamedName(repoTbl[m], m, id) IN
         IF NameFree(repoTbl, m, new)
         THEN [ok |-> TRUE, repo |-> With(repoTbl, m, new)]
         ELSE [ok |-> FALSE, repo |-> repoTbl]

\* executemany of the UPDATE, one parameter pair after the other.
RECURSIVE RenameConflicts(_, _, _)
RenameConflicts(repoTbl, fresh, i) ==
    IF i > Len(fresh) THEN [ok |-> TRUE, repo |-> repoTbl]
    ELSE LET r == RenameConflict(repoTbl, fresh[i].nameWithOwner, fresh[i].databaseId) IN
         IF r.ok THEN RenameConflicts(r.repo, fresh, i + 1) ELSE r

\* One INSERT INTO repo ... ON CONFLICT(id) DO UPDATE SET name_with_owner = ...
UpsertRepo(repoTbl, id, name) ==
    IF NameFree(repoTbl, id, name)
    THEN [ok |-> TRUE, repo |-> With(repoTbl, id, name)]
    ELSE [ok |-> FALSE, repo |-> repoTbl]

RECURSIVE UpsertRepos(_, _, _)
UpsertRepos(repoTbl, fresh, i) ==
    IF i > Len(fresh) THEN [ok |-> TRUE, repo |-> repoTbl]
    ELSE LET r == UpsertRepo(repoTbl, fresh[i].databaseId, fresh[i].nameWithOwner) IN
         IF r.ok THEN UpsertRepos(r.repo, fresh, i + 1) ELSE r

\* The description column written by the same INSERT ... ON CONFLICT(id)
\* DO UPDATE SET description = excluded.description.
UpsertDescriptions(descTbl, fresh) ==
    LET ids == {fresh[i].databaseId : i \in 1..Len(fresh)}
        nodeOf(m) == fresh[CHOOSE i \in 1..Len(fresh) : fresh[i].databaseId = m]
    IN  [m \in DOMAIN descTbl \cup ids |->
            IF m \in ids THEN nodeOf(m).description ELSE descTbl[m]]

\* The whole first `with self.conn:` block.  ok = FALSE: the block raised
\* and the connection rolled it back (db unchanged).
Tx1(d, fresh) ==
    LET ren == RenameConflicts(d.repo, fresh, 1)
        ups == IF ren.ok THEN UpsertRepos(ren.repo, fresh, 1) ELSE ren
    IN  IF ups.ok
        THEN [ok |-> TRUE,
              db |-> [d EXCEPT !.repo = ups.repo,
                               !.description = UpsertDescriptions(d.description, fresh),
                               !.repo_latest = DeleteConflictLatest(d.repo_latest, d.repo, fresh),
                               !.repo_topic_latest = DeleteConflictTopics(d.repo_topic_latest, d.repo, fresh)]]
        ELSE [ok |-> FALSE, db |-> d]

\* ------------------------------------ diff against repo_latest (344-407)
\* _fetch_latest_metrics: the repo_latest rows of the batch's ids, read
\* after the first transaction committed.
_fetch_latest_metrics(latestTbl, repo_ids) ==
    [m \in DOMAIN latestTbl \cap repo_ids |-> latestTbl[m]]

\* Mutant: the comparison of disk_usage done with SQL semantics, where a
\* comparison with NULL is never true.
changed_sqlNull(old, q) ==
    \/ old.stars # q.stars
    \/ old.forks # q.forks
    \/ old.watchers # q.watchers
    \/ (old.disk_usage # Null /\ q.disk_usage # Null /\ old.disk_usage # q.disk_usage)

\* Line 384 (Python !=, so None != None is False).
changed(old, q) ==
    \/ old.stars # q.stars
    \/ old.forks # q.forks
    \/ old.watchers # q.watchers
    \/ old.disk_usage # q.disk_usage

\* Does node n open a new history segment (lines 374-376, 386-388)?
OpensSegment(existing, n) ==
    \/ n.databaseId \notin DOMAIN existing
    \/ changed(existing[n.databaseId], n.quad)

\* Mutant: the segment start is taken from the current run also when the
\* metrics did not change.
HistoryStart_alwaysRun(existing, n, run) == run

\* history_start_run_id chosen for node n (lines 375, 387, 390).
HistoryStart(existing, n, run) ==
    IF OpensSegment(existing, n) THEN run
    ELSE existing[n.databaseId].history_start_run_id

\* _get_or_create_language_id: `if not name: return None`, otherwise the
\* id of the language row of that name (the row is identified by its name).
_get_or_create_language_id(name) ==
    IF name = NoText \/ name = <<>> THEN NoText ELSE name

LatestRow(existing, n, run) ==
    [run_id |-> run, history_start_run_id |-> HistoryStart(existing, n, run),
     stars |-> n.quad.stars, forks |-> n.quad.forks,
     watchers |-> n.quad.watchers, disk_usage |-> n.quad.disk_usage,
     primary_language |-> _get_or_create_language_id(n.primaryLanguage)]

HistRow(n, run) ==
    [repo_id |-> n.databaseId, start_run_id |-> run, end_run_id |-> run,
     stars |-> n.quad.stars, forks |-> n.quad.forks,
     watchers |-> n.quad.watchers, disk_usage |-> n.quad.disk_usage]

hist_insert_rows(existing, fresh, run) ==
    {HistRow(fresh[i], run) : i \in {j \in 1..Len(fresh) : OpensSegment(existing, fresh[j])}}

\* (run_id, repo_id, history_start_run_id) of the UPDATE ... SET end_run_id
hist_extend_rows(existing, fresh, run) ==
    {<<run, fresh[i].databaseId, existing[fresh[i].databaseId].history_start_run_id>> :
        i \in {j \in 1..Len(fresh) : ~OpensSegment(existing, fresh[j])}}

\* --------------------------------- second transaction (lines 428-484)
\* Mutant: an UPDATE in place of the upsert, which writes nothing for a
\* repo that has no repo_latest row.
UpsertLatest_updateOnly(latestTbl, existing, fresh, run) ==
    LET ids == {fresh[i].databaseId : i \in 1..Len(fresh)}
        nodeOf(m) == fresh[CHOOSE i \in 1..Len(fresh) : fresh[i].databaseId = m]
    IN  [m \in DOMAIN latestTbl |->
            IF m \in ids THEN LatestRow(existing, nodeOf(m), run) ELSE latestTbl[m]]

\* INSERT INTO repo_latest ... ON CONFLICT(repo_id) DO UPDATE, every row.
UpsertLatest(latestTbl, existing, fresh, run) ==
    LET ids == {fresh[i].databaseId : i \in 1..Len(fresh)}
        nodeOf(m) == fresh[CHOOSE i \in 1..Len(fresh) : fresh[i].databaseId = m]
    IN  [m \in DOMAIN latestTbl \cup ids |->
            IF m \in ids THEN LatestRow(existing, nodeOf(m), run) ELSE latestTbl[m]]

\* PRIMARY KEY (repo_id, start_run_id) of repo_metrics_hist.
HistKeyFree(histTbl, ins) ==
    \A h \in histTbl, r \in ins :
        ~(h.repo_id = r.repo_id /\ h.start_run_id = r.start_run_id)

\* Mutant: the UPDATE matches on repo_id only and moves the end of every
\* segment of the repo.
ExtendHist_allRows(histTbl, ext) ==
    {IF \E e \in ext : e[2] = h.repo_id
     THEN [h EXCEPT !.end_run_id = (CHOOSE e \in ext : e[2] = h.repo_id)[1]]
     ELSE h : h \in histTbl}

\* UPDATE repo_metrics_hist SET end_run_id = ? WHERE repo_id = ? AND start_run_id = ?
ExtendHist(histTbl, ext) ==
    {IF \E e \in ext : e[2] = h.repo_id /\ e[3] = h.start_run_id
     THEN [h EXCEPT !.end_run_id =
              (CHOOSE e \in ext : e[2] = h.repo_id /\ e[3] = h.start_run_id)[1]]
     ELSE h : h \in histTbl}

\* Mutant: the INSERT OR IGNORE without the DELETE before it.
RefreshTopics_insertOnly(topicTbl, fresh) ==
    topicTbl
        \cup UNION {{<<fresh[i].databaseId, t>> : t \in fresh[i].topics \ {<<>>}} :
                        i \in 1..Len(fresh)}

\* DELETE FROM repo_topic_latest WHERE repo_id IN (...), then INSERT OR IGNORE.
RefreshTopics(topicTbl, fresh) ==
    LET ids == {fresh[i].databaseId : i \in 1..Len(fresh)} IN
    {p \in topicTbl : p[1] \notin ids}
        \cup UNION {{<<fresh[i].databaseId, t>> : t \in fresh[i].topics \ {<<>>}} :
                        i \in 1..Len(fresh)}

\* Mutant: a repo keeps its current segment only; opening a segment deletes
\* the earlier segments of the repo.
Tx2_currentOnly(d, fresh, run) ==
    LET existing == _fetch_latest_metrics(d.repo_latest, {fresh[i].databaseId : i \in 1..Len(fresh)})
        ins == hist_insert_rows(existing, fresh, run)
        ext == hist_extend_rows(existing, fresh, run)
        kept == {h \in d.repo_metrics_hist : \A r \in ins : r.repo_id # h.repo_id}
    IN  [ok |-> TRUE,
         db |-> [d EXCEPT !.repo_latest = UpsertLatest(d.repo_latest, existing, fresh, run),
                          !.repo_metrics_hist = ExtendHist(kept \cup ins, ext),
                          !.repo_topic_latest = RefreshTopics(d.repo_topic_latest, fresh)]]

\* The whole second `with self.conn:` block; ok = FALSE: rolled back.
Tx2(d, fresh, run) ==
    LET existing == _fetch_latest_metrics(d.repo_latest, {fresh[i].databaseId : i \in 1..Len(fresh)})
        ins == hist_insert_rows(existing, fresh, run)
        ext == hist_extend_rows(existing, fresh, run)
    IN  IF HistKeyFree(d.repo_metrics_hist, ins)
        THEN [ok |-> TRUE,
              db |-> [d EXCEPT !.repo_latest = UpsertLatest(d.repo_latest, existing, fresh, run),
                               !.repo_metrics_hist = ExtendHist(d.repo_metrics_hist \cup ins, ext),
                               !.repo_topic_latest = RefreshTopics(d.repo_topic_latest, fresh)]]
        ELSE [ok |-> FALSE, db |-> d]

\* ------------------------------------------- upsert_from_github_nodes
\* A node without the key nameWithOwner: n["nameWithOwner"] raises KeyError.
NoName == Name(<<>>, <<Null>>)

\* A stargazerCount that int() rejects (null or not a number): TypeError.
BadInt == -2

\* Line 302, in the loop that builds repo_rows before the first transaction.
RaisesKeyError(fresh) == \E i \in 1..Len(fresh) : fresh[i].nameWithOwner = NoName

\* Line 358, in the loop that builds the rows of the second transaction.
RaisesTypeError(fresh) == \E i \in 1..Len(fresh) : fresh[i].quad.stars = BadInt

\* The call as a function of the database, the engine's fields and the
\* clock: [db, run_id, processed, outcome, applied].  The outcomes other
\* than "noop" and "ok" are the exceptions that leave the call.
Upsert(d, rid, seen, nodes, t) ==
    LET run == begin_run(rid, d.fetch_run)
        d0 == [d EXCEPT !.fetch_run = begin_run_table(rid, d.fetch_run),
                        !.fetched_at = begin_run_fetched_at(rid, d.fetch_run, d.fetched_at, t)]
        f == FreshNodes(nodes, 1, seen, <<>>)
        t1 == Tx1(d0, f.fresh)
        t2 == Tx2(t1.db, f.fresh, run)
        res(db, out) == [db |-> db, run_id |-> run, processed |-> f.seen,
                         outcome |-> out, applied |-> f.fresh]
    IN  IF f.fresh = <<>> THEN res(d0, "noop")
        ELSE IF RaisesKeyError(f.fresh) THEN res(d0, "KeyError")
        ELSE IF ~t1.ok THEN res(d0, "tx1")
        ELSE IF RaisesTypeError(f.fresh) THEN res(t1.db, "TypeError")
        ELSE IF ~t2.ok THEN res(t1.db, "tx2")
        ELSE res(t2.db, "ok")

\* ---------------------------------------------------------- the actions
\* The state after RepoDB(path) on a new file (__init__, lines 108-118).
NoResponse == [op |-> "none"]

NoScan == [pages |-> <<>>]

\* The serving process is not part of an ingestion pass.
ServerIdle ==
    /\ response_cache = <<>>
    /\ resp = NoResponse
    /\ scan = NoScan

\* The handler threads of the serving process (a bound on their number).
MaxThreads == 2

Threads == 1..MaxThreads

\* A thread that is in no method of the cache.
Returned == [pc |-> "idle"]

\* No batch is between its two transactions.
NoBatch == [phase |-> "none"]

\* Before the first pass: nothing deployed, the serving process running on
\* the database file it opened (version 0), no crawl under way.
NotDeployed == [file |-> 0, server |-> "up", opened |-> 0, step |-> "idle"]

NoCrawl == [pc |-> "idle"]

AsideIdle ==
    /\ used = <<>>
    /\ handlers = [t \in Threads |-> Returned]
    /\ pending = NoBatch
    /\ live = NotDeployed
    /\ crawl = NoCrawl

Init ==
    /\ repo = <<>>
    /\ description = <<>>
    /\ fetch_run = {}
    /\ fetched_at = <<>>
    /\ now = 0
    /\ ServerIdle
    /\ AsideIdle
    /\ repo_latest = <<>>
    /\ repo_metrics_hist = {}
    /\ repo_topic_latest = {}
    /\ run_id = Null
    /\ processed = {}
    /\ last = [outcome |-> "open", applied |-> <<>>]
    /\ ingestedIn = [m \in RepoIds |-> {}]
    /\ displaced = {}

\* Seconds between the starts of two consecutive passes (one pass a day).
PassGaps == {86400}

\* close() and RepoDB(path) on the same database file: the next ingestion
\* pass (crawl() builds one engine per pass, lines 195-197 of crawler.py).
OpenEngine ==
    /\ run_id # Null
    /\ Cardinality(fetch_run) < MaxRuns
    /\ run_id' = Null
    /\ processed' = {}
    /\ last' = [outcome |-> "open", applied |-> <<>>]
    /\ \E gap \in PassGaps : now' = now + gap
    /\ UNCHANGED aside
    /\ UNCHANGED <<repo, description, fetch_run, fetched_at, repo_latest,
                   repo_metrics_hist, repo_topic_latest, ingestedIn, displaced,
                   response_cache, resp, scan>>

\* upsert_from_github_nodes(nodes): what the call does to the database,
\* to the engine and to the history.
UpsertCall(nodes) ==
    \E r \in {Upsert(DB, run_id, processed, nodes, now)} :
        /\ repo' = r.db.repo
        /\ description' = r.db.description
        /\ fetch_run' = r.db.fetch_run
        /\ fetched_at' = r.db.fetched_at
        /\ UNCHANGED <<now, response_cache, resp, scan>>
        /\ repo_latest' = r.db.repo_latest
        /\ repo_metrics_hist' = r.db.repo_metrics_hist
        /\ repo_topic_latest' = r.db.repo_topic_latest
        /\ run_id' = r.run_id
        /\ processed' = r.processed
        /\ last' = [outcome |-> r.outcome,
                    applied |-> IF r.outcome = "ok" THEN r.applied ELSE <<>>]
        /\ ingestedIn' =
             IF r.outcome = "ok"
             THEN [m \in RepoIds |->
                     IF m \in r.processed \ processed
                     THEN ingestedIn[m] \cup {r.run_id} ELSE ingestedIn[m]]
             ELSE ingestedIn
        /\ displaced' =
             IF r.outcome = "ok"
             THEN (displaced \cup
                     {m \in DOMAIN repo : \E i \in 1..Len(r.applied) :
                         /\ repo[m] = r.applied[i].nameWithOwner
                         /\ m # r.applied[i].databaseId})
                  \ (r.processed \ processed)
             ELSE displaced

\* The call in a process that does nothing else.
Ingest(nodes) ==
    /\ UpsertCall(nodes)
    /\ UNCHANGED aside

Next ==
    \/ OpenEngine
    \/ \E nodes \in Batches : Ingest(nodes)

Spec == Init /\ [][Next]_vars

\* ----------------------------------------- ingestion of malformed nodes
\* Nodes as an upstream response can carry them: without a usable
\* databaseId (absent, null or not positive), without nameWithOwner, or
\* with a stargazerCount that is not a number.
MalformedSnapshots ==
    [databaseId : {Null, 0}, nameWithOwner : {Name(<<97>>, <<>>)},
     quad : {Quad(1, 0, 0, Null)}, topics : UpstreamTopicSets,
     description : UpstreamDescriptions, primaryLanguage : UpstreamLanguages]
    \cup
    [databaseId : RepoIds, nameWithOwner : {NoName},
     quad : {Quad(1, 0, 0, Null)}, topics : UpstreamTopicSets,
     description : UpstreamDescriptions, primaryLanguage : UpstreamLanguages]
    \cup
    [databaseId : RepoIds, nameWithOwner : UpstreamNames,
     quad : {Quad(BadInt, 0, 0, Null)}, topics : UpstreamTopicSets,
     description : UpstreamDescriptions, primaryLanguage : UpstreamLanguages]

FaultSnapshots ==
    {n \in Snapshots : n.quad = Quad(1, 0, 0, Null)} \cup MalformedSnapshots

FaultBatches == UNION {[1..n -> FaultSnapshots] : n \in 1..MaxBatchLen}

NextFault ==
    \/ OpenEngine
    \/ \E nodes \in FaultBatches : Ingest(nodes)

SpecFault == Init /\ [][NextFault]_vars

\* ------------------------------------------------------ texts (db.py)
\* str.strip(): the whitespace characters of ASCII.
Whitespace == {9, 10, 11, 12, 13, 32}

strip(s) ==
    LET keep == {i \in 1..Len(s) : s[i] \notin Whitespace} IN
    IF keep = {} THEN <<>>
    ELSE SubSeq(s, CHOOSE i \in keep : \A j \in keep : i <= j, Max(keep))

\* str(n) of a non-negative int.
RECURSIVE Digits(_)
Digits(n) == IF n < 10 THEN <<48 + n>> ELSE Digits(n \div 10) \o <<48 + (n % 10)>>

\* str(n) of an int (f-string formatting of the page number).
IntText(n) == IF n < 0 THEN <<45>> \o Digits(0 - n) ELSE Digits(n)

\* The stored text of a name: base || '-renamed-' || id || ...
RECURSIVE Str(_)
Str(name) ==
    IF name.ren = <<>> THEN name.base
    ELSE Str(Name(name.base, SubSeq(name.ren, 1, Len(name.ren) - 1)))
         \o <<45, 114, 101, 110, 97, 109, 101, 100, 45>> \o Digits(name.ren[Len(name.ren)])

\* SQLite LIKE folds the case of the ASCII letters only.
Lower(c) == IF c \in 65..90 THEN c + 32 ELSE c

\* text LIKE pattern: % matches any run of characters, _ any one.
RECURSIVE Like(_, _)
Like(pattern, text) ==
    IF pattern = <<>> THEN text = <<>>
    ELSE IF Head(pattern) = 37
         THEN Like(Tail(pattern), text) \/ (text # <<>> /\ Like(pattern, Tail(text)))
         ELSE /\ text # <<>>
              /\ (Head(pattern) = 95 \/ Lower(Head(pattern)) = Lower(Head(text)))
              /\ Like(Tail(pattern), Tail(text))

\* a < b under the BINARY collation (memcmp, the shorter prefix first).
RECURSIVE TextLess(_, _)
TextLess(a, b) ==
    IF b = <<>> THEN FALSE
    ELSE IF a = <<>> THEN TRUE
    ELSE IF Head(a) # Head(b) THEN Head(a) < Head(b)
    ELSE TextLess(Tail(a), Tail(b))

\* Python truthiness of an Optional[str].
Truthy(s) == s # NoText /\ s # <<>>

\* ------------------------------------------ queries (db.py, 497-670)
\* The arguments q, in_description, language and topic of a query.
Filter(q, ind, lang, topic) ==
    [q |-> q, in_description |-> ind, language |-> lang, topic |-> topic]

\* FROM repo_latest rl JOIN repo r ON r.id = rl.repo_id
LatestJoinRepo(d) == DOMAIN d.repo_latest \cap DOMAIN d.repo

\* ... JOIN fetch_run fr ON fr.id = rl.run_id (select_latest_base_sql)
LatestBase(d) == {m \in LatestJoinRepo(d) : d.repo_latest[m].run_id \in d.fetch_run}

\* The WHERE clause _prepare_filter_conditions builds, evaluated on the
\* row of repo m (a comparison with NULL is not true).
_prepare_filter_conditions(d, m, f) ==
    /\ Truthy(f.language) => d.repo_latest[m].primary_language = f.language
    /\ Truthy(f.topic) => <<m, f.topic>> \in d.repo_topic_latest
    /\ (Truthy(f.q) /\ strip(f.q) # <<>>) =>
            LET like == <<37>> \o strip(f.q) \o <<37>> IN
            \/ Like(like, Str(d.repo[m]))
            \/ /\ f.in_description
               /\ d.description[m] # NoText
               /\ Like(like, d.description[m])

\* SELECT COUNT(DISTINCT rl.repo_id) ... + where_clause
count_leaderboard(d, f) ==
    Cardinality({m \in LatestJoinRepo(d) : _prepare_filter_conditions(d, m, f)})

\* One row of a result before LIMIT/OFFSET: the repo and its ORDER BY terms.
SortRow(m, k1, k2, n) == [m |-> m, k1 |-> k1, k2 |-> k2, n |-> n]

\* ORDER BY k1 DESC, k2 DESC, name ASC (NULL, the smallest value, last).
Before(a, b) ==
    \/ a.k1 > b.k1
    \/ a.k1 = b.k1 /\ a.k2 > b.k2
    \/ a.k1 = b.k1 /\ a.k2 = b.k2 /\ TextLess(a.n, b.n)

\* The ORDER BY of a query: the rows before a pivot row, the pivot (and
\* any row the order does not separate from it), the rows after it.
RECURSIVE OrderBy(_)
OrderBy(rows) ==
    IF Len(rows) <= 1 THEN rows
    ELSE LET pivot == rows[(Len(rows) + 1) \div 2]
             before(r) == Before(r, pivot)
             after(r) == Before(pivot, r)
             beside(r) == ~Before(r, pivot) /\ ~Before(pivot, r)
         IN  OrderBy(SelectSeq(rows, before)) \o SelectSeq(rows, beside)
                \o OrderBy(SelectSeq(rows, after))

\* page_size of leaderboard and trending_leaderboard.
page_size == 100

\* Mutant: a page starts one row early, at the last row of the page before.
LimitOffset_overlap(rows, limit, offset) ==
    LET off == IF offset < 1 THEN 0 ELSE offset - 1 IN
    IF off >= Len(rows) THEN <<>>
    ELSE SubSeq(rows, off + 1, IF off + limit > Len(rows) THEN Len(rows) ELSE off + limit)

\* LIMIT ? OFFSET ?: a negative OFFSET counts as zero in SQLite.
LimitOffset(rows, limit, offset) ==
    LET off == IF offset < 0 THEN 0 ELSE offset IN
    IF off >= Len(rows) THEN <<>>
    ELSE SubSeq(rows, off + 1, IF off + limit > Len(rows) THEN Len(rows) ELSE off + limit)

\* The repos of a result set as a sequence (the order is that of the scan).
RowsOf(ids) ==
    LET top == IF ids = {} THEN 0 ELSE Max(ids)
        present(i) == i \in ids
    IN  SelectSeq([i \in 1..top |-> i], present)

\* row_to_obj: "ns" is set only when the newStars column is there and not 0.
row_to_obj(d, r, ns) ==
    [n |-> d.repo[r.m], s |-> d.repo_latest[r.m].stars, f |-> d.repo_latest[r.m].forks,
     w |-> d.repo_latest[r.m].watchers, d |-> d.repo_latest[r.m].disk_usage,
     ns |-> IF ns # 0 THEN ns ELSE Null]

\* _base_run_id_for_window
_base_run_id_for_window(d, window_seconds) ==
    IF d.fetch_run = {} THEN 0
    ELSE LET now_ts == Max({d.fetched_at[r] : r \in d.fetch_run})
             cutoff == now_ts - window_seconds
             older == {r \in d.fetch_run : d.fetched_at[r] <= cutoff}
         IN  IF older = {} THEN 0 ELSE Max(older)

\* Mutant: the base segment must have ended before the base run.
BaseSegments_closed(d, m, base_run_id) ==
    {h \in d.repo_metrics_hist :
        h.repo_id = m /\ h.start_run_id <= base_run_id /\ h.end_run_id < base_run_id}

\* WHERE h.repo_id = rl.repo_id AND h.start_run_id <= ? AND h.end_run_id >= ?
BaseSegments(d, m, base_run_id) ==
    {h \in d.repo_metrics_hist :
        h.repo_id = m /\ h.start_run_id <= base_run_id /\ h.end_run_id >= base_run_id}

\* Mutant: newStars without the floor MAX(..., 0).
newStars_signed(d, m, base_run_id) ==
    LET segs == BaseSegments(d, m, base_run_id)
        first == CHOOSE h \in segs : \A g \in segs : h.end_run_id <= g.end_run_id
        baseStars == IF segs = {} THEN d.repo_latest[m].stars ELSE first.stars
    IN  d.repo_latest[m].stars - baseStars

\* MAX(rl.stars - COALESCE((SELECT h.stars ... ORDER BY h.end_run_id ASC
\* LIMIT 1), rl.stars), 0) AS newStars
newStars(d, m, base_run_id) ==
    LET segs == BaseSegments(d, m, base_run_id)
        first == CHOOSE h \in segs : \A g \in segs : h.end_run_id <= g.end_run_id
        baseStars == IF segs = {} THEN d.repo_latest[m].stars ELSE first.stars
        delta == d.repo_latest[m].stars - baseStars
    IN  IF delta > 0 THEN delta ELSE 0

\* trending_leaderboard: the rows returned.
trending_leaderboard(d, window_seconds, page, f) ==
    LET base_run_id == _base_run_id_for_window(d, window_seconds)
        offset == (page - 1) * page_size
        ids == {m \in LatestBase(d) : _prepare_filter_conditions(d, m, f)}
        row(m) == SortRow(m, newStars(d, m, base_run_id), d.repo_latest[m].stars, Str(d.repo[m]))
        scanned == RowsOf(ids)
        rows == LimitOffset(OrderBy([i \in 1..Len(scanned) |-> row(scanned[i])]),
                            page_size, offset)
    IN  [i \in 1..Len(rows) |-> row_to_obj(d, rows[i], rows[i].k1)]

trending_map ==
    (<<116, 114, 101, 110, 100, 105, 110, 103, 50, 52, 104>> :> 24 * 3600) @@
    (<<116, 114, 101, 110, 100, 105, 110, 103, 51, 100>> :> 3 * 24 * 3600) @@
    (<<116, 114, 101, 110, 100, 105, 110, 103, 55, 100>> :> 7 * 24 * 3600) @@
    (<<116, 114, 101, 110, 100, 105, 110, 103, 51, 48, 100>> :> 30 * 24 * 3600)

\* The column each static metric key orders by.
metric_map ==
    (<<115, 116, 97, 114, 115>> :> "stars") @@
    (<<115, 116, 97, 114, 103, 97, 122, 101, 114, 67, 111, 117, 110, 116>> :> "stars") @@
    (<<102, 111, 114, 107, 115>> :> "forks") @@
    (<<102, 111, 114, 107, 67, 111, 117, 110, 116>> :> "forks") @@
    (<<119, 97, 116, 99, 104, 101, 114, 115>> :> "watchers") @@
    (<<119, 97, 116, 99, 104, 101, 114, 115, 67, 111, 117, 110, 116>> :> "watchers") @@
    (<<100, 105, 115, 107, 85, 115, 97, 103, 101>> :> "disk_usage") @@
    (<<100, 105, 115, 107, 95, 117, 115, 97, 103, 101>> :> "disk_usage")

\* rl.<column> of the row of repo m.
OrderExpr(d, m, column) ==
    CASE column = "stars" -> d.repo_latest[m].stars
      [] column = "forks" -> d.repo_latest[m].forks
      [] column = "watchers" -> d.repo_latest[m].watchers
      [] column = "disk_usage" -> d.repo_latest[m].disk_usage

\* leaderboard: [raised, items]; raised = TRUE is ValueError.
leaderboard(d, metric, page, f) ==
    IF metric \in DOMAIN trending_map
    THEN [raised |-> FALSE, items |-> trending_leaderboard(d, trending_map[metric], page, f)]
    ELSE IF metric \notin DOMAIN metric_map
    THEN [raised |-> TRUE, items |-> <<>>]
    ELSE LET offset == (page - 1) * page_size
             ids == {m \in LatestBase(d) : _prepare_filter_conditions(d, m, f)}
             row(m) == SortRow(m, OrderExpr(d, m, metric_map[metric]), 0, Str(d.repo[m]))
             scanned == RowsOf(ids)
             rows == LimitOffset(OrderBy([i \in 1..Len(scanned) |-> row(scanned[i])]),
                                 page_size, offset)
         IN  [raised |-> FALSE,
              items |-> [i \in 1..Len(rows) |-> row_to_obj(d, rows[i], 0)]]

\* Mutant: the rank counts the repos with more stars only.
get_global_rank_starsOnly(d, name_with_owner) ==
    LET hit == {m \in LatestJoinRepo(d) : d.repo[m] = name_with_owner} IN
    IF hit = {} THEN Null
    ELSE LET m == CHOOSE x \in hit : TRUE IN
         Cardinality({m2 \in LatestJoinRepo(d) :
            d.repo_latest[m2].stars > d.repo_latest[m].stars}) + 1

\* get_global_rank: Null is None (no row of that name with a repo_latest row).
get_global_rank(d, name_with_owner) ==
    LET hit == {m \in LatestJoinRepo(d) : d.repo[m] = name_with_owner} IN
    IF hit = {} THEN Null
    ELSE LET m == CHOOSE x \in hit : TRUE IN
         Cardinality({m2 \in LatestJoinRepo(d) :
            \/ d.repo_latest[m2].stars > d.repo_latest[m].stars
            \/ /\ d.repo_latest[m2].stars = d.repo_latest[m].stars
               /\ TextLess(Str(d.repo[m2]), Str(d.repo[m]))}) + 1

\* ------------------------------------------------- the server (app.py)
max_size == 10000

LEADERBOARD_PAGE_SIZE == 100

\* The position of key in the OrderedDict, 0 when it is not a key.
CacheIndex(cache, key) ==
    IF \E i \in 1..Len(cache) : cache[i].key = key
    THEN CHOOSE i \in 1..Len(cache) : cache[i].key = key
    ELSE 0

\* LRUCache.get: [hit, value, cache]; a hit moves the entry to the end.
LRUCache_get(cache, key) ==
    LET i == CacheIndex(cache, key) IN
    IF i = 0 THEN [hit |-> FALSE, cache |-> cache]
    ELSE [hit |-> TRUE, value |-> cache[i].value,
          cache |-> SubSeq(cache, 1, i - 1) \o SubSeq(cache, i + 1, Len(cache))
                        \o <<cache[i]>>]

\* LRUCache.set of a cache built by LRUCache(max_size = cap): assignment
\* keeps the place of an existing key and puts a new key last; over cap
\* the first entry is popped.
LRUCache_put(cap, cache, key, value) ==
    LET i == CacheIndex(cache, key)
        put == IF i = 0 THEN Append(cache, [key |-> key, value |-> value])
               ELSE [cache EXCEPT ![i].value = value]
    IN  IF Len(put) > cap THEN Tail(put) ELSE put

\* response_cache.set(key, value)
LRUCache_set(cache, key, value) == LRUCache_put(max_size, cache, key, value)

\* f"{x}" of an Optional[str] and of a bool.
Fmt(x) == IF x = NoText THEN <<78, 111, 110, 101>> ELSE x

BoolText(b) == IF b THEN <<84, 114, 117, 101>> ELSE <<70, 97, 108, 115, 101>>

\* f"lb:{metric}:{page}:{q}:{in_description}:{language}:{topic}"
cache_key(metric, page, f) ==
    <<108, 98, 58>> \o metric \o <<58>> \o IntText(page) \o <<58>> \o Fmt(f.q) \o <<58>> \o
    BoolText(f.in_description) \o <<58>> \o Fmt(f.language) \o <<58>> \o Fmt(f.topic)

\* The body of a response that carries no result.
NoBody == [page |-> 0, total |-> 0, totalPages |-> 0, items |-> <<>>]

\* GET /api/leaderboard: [status, body, cached, cache].  page: int =
\* Query(1, ge=1) is checked by the framework before the function runs
\* (422 Unprocessable Entity); ValueError becomes HTTPException(400).
api_leaderboard(cache, d, metric, page, f) ==
    IF page < 1
    THEN [status |-> 422, body |-> NoBody, cached |-> FALSE, cache |-> cache]
    ELSE LET key == cache_key(metric, page, f)
             got == LRUCache_get(cache, key)
         IN  IF got.hit
             THEN [status |-> 200, body |-> got.value, cached |-> TRUE, cache |-> got.cache]
             ELSE LET total == count_leaderboard(d, f)
                      res == leaderboard(d, metric, page, f)
                      result == [page |-> page, total |-> total,
                                 totalPages |->
                                    IF total > 0
                                    THEN (total + LEADERBOARD_PAGE_SIZE - 1) \div LEADERBOARD_PAGE_SIZE
                                    ELSE 1,
                                 items |-> res.items]
                  IN  IF res.raised
                      THEN [status |-> 400, body |-> NoBody, cached |-> FALSE, cache |-> cache]
                      ELSE [status |-> 200, body |-> result, cached |-> FALSE,
                            cache |-> LRUCache_set(cache, key, result)]

\* ------------------------------------------------ serving a catalog
\* Node i of a generated catalog of repositories: names "go/<i>" and
\* "x/<i>", descriptions "a Go lib", none and "tool", languages Go, Rust
\* and none, topics database and cli, metrics with ties and NULLs.
CatalogNode(i) ==
    [databaseId |-> i,
     nameWithOwner |-> Name((IF i % 3 = 0 THEN <<103, 111, 47>> ELSE <<120, 47>>) \o Digits(i), <<>>),
     quad |-> Quad((i * 7) % 11, i % 3, i % 2, IF i % 5 = 0 THEN Null ELSE i % 4),
     topics |-> IF i % 3 = 0 THEN {<<100, 97, 116, 97, 98, 97, 115, 101>>}
                ELSE IF i % 4 = 0 THEN {<<99, 108, 105>>, <<100, 97, 116, 97, 98, 97, 115, 101>>} ELSE {},
     description |-> IF i % 4 = 0 THEN <<97, 32, 71, 111, 32, 108, 105, 98>>
                     ELSE IF i % 4 = 1 THEN NoText ELSE <<116, 111, 111, 108>>,
     primaryLanguage |-> IF i % 2 = 0 THEN <<71, 111>>
                         ELSE IF i % 3 = 0 THEN <<82, 117, 115, 116>> ELSE NoText]

\* A Go repo with topic database, a Go repo without it, a repo in another
\* language with it.
ThreeRepos ==
    <<[databaseId |-> 1, nameWithOwner |-> Name(<<111, 47, 97>>, <<>>),
       quad |-> Quad(3, 0, 0, Null), topics |-> {<<100, 97, 116, 97, 98, 97, 115, 101>>},
       description |-> NoText, primaryLanguage |-> <<71, 111>>],
      [databaseId |-> 2, nameWithOwner |-> Name(<<111, 47, 98>>, <<>>),
       quad |-> Quad(2, 0, 0, Null), topics |-> {},
       description |-> NoText, primaryLanguage |-> <<71, 111>>],
      [databaseId |-> 3, nameWithOwner |-> Name(<<111, 47, 99>>, <<>>),
       quad |-> Quad(1, 0, 0, Null), topics |-> {<<100, 97, 116, 97, 98, 97, 115, 101>>},
       description |-> NoText, primaryLanguage |-> <<82, 117, 115, 116>>]>>

\* A fourth repo that takes the name of the first of ThreeRepos.
Takeover ==
    <<[databaseId |-> 4, nameWithOwner |-> Name(<<111, 47, 97>>, <<>>),
       quad |-> Quad(2, 0, 0, Null), topics |-> {},
       description |-> NoText, primaryLanguage |-> <<71, 111>>]>>

\* The generated catalog grows batch by batch within one pass; these are
\* the numbers of repos after each batch (half a page at most at a time).
LoadSteps ==
    <<0, 1, page_size \div 2, page_size, page_size + 1,
      page_size + page_size \div 2, 2 * page_size, 2 * page_size + 1>>

\* The node lists the crawl hands to upsert_from_github_nodes.
Catalogs ==
    {ThreeRepos, Takeover} \cup
    {[i \in 1..(LoadSteps[k + 1] - LoadSteps[k]) |-> CatalogNode(LoadSteps[k] + i)] :
        k \in 1..(Len(LoadSteps) - 1)}

\* The database sizes at which the server is observed: none, one, three,
\* four, a full page, a page and one row, two pages and one row.
ServedSizes == {0, 1, 3, 4, page_size, page_size + 1, 2 * page_size + 1}

Serving == Cardinality(DOMAIN repo) \in ServedSizes

\* The metric strings leaderboard accepts: the keys of the two maps.
ValidMetrics == DOMAIN metric_map \cup DOMAIN trending_map

\* The filter tuples of the requests.
NoFilter == Filter(NoText, TRUE, NoText, NoText)

FilterTuples ==
    {NoFilter,
      Filter(NoText, TRUE, <<71, 111>>, NoText),
      Filter(NoText, TRUE, NoText, <<100, 97, 116, 97, 98, 97, 115, 101>>),
      Filter(NoText, TRUE, <<71, 111>>, <<100, 97, 116, 97, 98, 97, 115, 101>>),
      Filter(<<103, 111>>, TRUE, NoText, NoText),
      Filter(<<103, 111>>, FALSE, NoText, NoText),
      Filter(<<32, 103, 111, 32>>, TRUE, <<71, 111>>, <<100, 97, 116, 97, 98, 97, 115, 101>>),
      Filter(<<>>, TRUE, <<>>, <<>>),
      Filter(<<32, 32>>, TRUE, NoText, NoText),
      Filter(NoText, TRUE, <<32>>, NoText),
      Filter(NoText, TRUE, NoText, <<32>>),
      Filter(<<95, 79>>, FALSE, NoText, NoText),
      Filter(<<49, 58, 120>>, TRUE, NoText, NoText),
      Filter(<<120>>, TRUE, NoText, NoText)}

Response(op, metric, page, f, status, body, cached) ==
    [op |-> op, metric |-> metric, page |-> page, filter |-> f,
     status |-> status, body |-> body, cached |-> cached]

\* The crawl stores the next batch of the catalog (the site is deployed,
\* and served, after the crawl).
IngestCatalog(nodes) ==
    /\ nodes[1].databaseId = Cardinality(DOMAIN repo) + 1
    /\ response_cache = <<>>
    /\ resp = NoResponse
    /\ Ingest(nodes)

\* GET /api/leaderboard?page=1 of a client that starts reading a
\* leaderboard, the first request after the deployment.
StartScan(metric, f) ==
    /\ Serving
    /\ response_cache = <<>>
    /\ resp = NoResponse
    /\ \E r \in {api_leaderboard(response_cache, DB, metric, 1, f)} :
        /\ response_cache' = r.cache
        /\ resp' = Response("api", metric, 1, f, r.status, r.body, r.cached)
        /\ scan' = [metric |-> metric, filter |-> f, total |-> r.body.total,
                     totalPages |-> r.body.totalPages, pages |-> <<r.body.items>>]
    /\ UNCHANGED aside
    /\ UNCHANGED <<repo, description, fetch_run, fetched_at, repo_latest,
                   repo_metrics_hist, repo_topic_latest, run_id, processed, last,
                   ingestedIn, displaced, now>>

\* The same client asks for the next page, up to totalPages.
ContinueScan ==
    /\ scan.pages # <<>>
    /\ resp.op = "api"
    /\ resp.metric = scan.metric
    /\ resp.page = Len(scan.pages)
    /\ Len(scan.pages) < scan.totalPages
    /\ \E r \in {api_leaderboard(response_cache, DB, scan.metric,
                                  Len(scan.pages) + 1, scan.filter)} :
        /\ response_cache' = r.cache
        /\ resp' = Response("api", scan.metric, Len(scan.pages) + 1, scan.filter,
                             r.status, r.body, r.cached)
        /\ scan' = [scan EXCEPT !.pages = Append(@, r.body.items)]
    /\ UNCHANGED aside
    /\ UNCHANGED <<repo, description, fetch_run, fetched_at, repo_latest,
                   repo_metrics_hist, repo_topic_latest, run_id, processed, last,
                   ingestedIn, displaced, now>>

\* The requests that should be refused: a metric that is no key ("Stars",
\* "", and "stars:1" with q = "x"), a page below 1.
RefusedRequests ==
    {<<<<83, 116, 97, 114, 115>>, 1, NoFilter>>,
     <<<<>>, 1, NoFilter>>,
     <<<<115, 116, 97, 114, 115, 58, 49>>, 1, Filter(<<120>>, TRUE, NoText, NoText)>>,
     <<<<115, 116, 97, 114, 115>>, 0, NoFilter>>,
     <<<<115, 116, 97, 114, 115>>, 0 - 1, NoFilter>>,
     <<<<116, 114, 101, 110, 100, 105, 110, 103, 51, 100>>, 0, NoFilter>>}

\* GET /api/leaderboard with such a request, as the first request or
\* after the first page of a leaderboard was served.
Probe(metric, page, f) ==
    /\ Serving
    /\ resp.op = "none" \/ (resp.op = "api" /\ resp.metric \in ValidMetrics /\ resp.page = 1)
    /\ \E r \in {api_leaderboard(response_cache, DB, metric, page, f)} :
        /\ response_cache' = r.cache
        /\ resp' = Response("api", metric, page, f, r.status, r.body, r.cached)
    /\ UNCHANGED aside
    /\ UNCHANGED <<repo, description, fetch_run, fetched_at, repo_latest,
                   repo_metrics_hist, repo_topic_latest, run_id, processed, last,
                   ingestedIn, displaced, now, scan>>

\* RepoDB.leaderboard called with such a request; status 400 stands for
\* the ValueError raised, 200 for a list returned.
Query(metric, page, f) ==
    /\ Serving
    /\ response_cache = <<>>
    /\ resp = NoResponse
    /\ \E r \in {leaderboard(DB, metric, page, f)} :
        resp' = Response("RepoDB", metric, page, f, IF r.raised THEN 400 ELSE 200,
                         [NoBody EXCEPT !.items = r.items], FALSE)
    /\ UNCHANGED aside
    /\ UNCHANGED <<repo, description, fetch_run, fetched_at, repo_latest,
                   repo_metrics_hist, repo_topic_latest, run_id, processed, last,
                   ingestedIn, displaced, now, response_cache, scan>>

\* RepoDB.get_global_rank(name) for the name of a repo row, once a client
\* has read the whole unfiltered leaderboard of stars.
Rank(m) ==
    /\ m \in DOMAIN repo
    /\ resp.op = "api"
    /\ resp.page = Len(scan.pages)
    /\ scan.pages # <<>>
    /\ scan.metric = <<115, 116, 97, 114, 115>>
    /\ scan.filter = NoFilter
    /\ Len(scan.pages) = scan.totalPages
    /\ resp' = [op |-> "rank", name |-> repo[m], rank |-> get_global_rank(DB, repo[m])]
    /\ UNCHANGED aside
    /\ UNCHANGED <<repo, description, fetch_run, fetched_at, repo_latest,
                   repo_metrics_hist, repo_topic_latest, run_id, processed, last,
                   ingestedIn, displaced, now, response_cache, scan>>

NextQuery ==
    \/ \E nodes \in Catalogs : IngestCatalog(nodes)
    \/ \E metric \in ValidMetrics, f \in FilterTuples : StartScan(metric, f)
    \/ ContinueScan
    \/ \E rq \in RefusedRequests : Probe(rq[1], rq[2], rq[3])
    \/ \E rq \in RefusedRequests : Query(rq[1], rq[2], rq[3])
    \/ \E m \in 1..(2 * page_size + 1) : Rank(m)

SpecQuery == Init /\ [][NextQuery]_vars

\* ------------------------------------------- trending over daily passes
\* Daily passes over two repositories: "a" with 100, 120, 150 or 200
\* stars and "b" with 150, each present in a pass or not.
MaxTrendRuns == 5

TrendSnapshots ==
    {[databaseId |-> 1, nameWithOwner |-> Name(<<97>>, <<>>), quad |-> Quad(st, 0, 0, Null),
      topics |-> {}, description |-> NoText, primaryLanguage |-> NoText] :
        st \in {100, 120, 150, 200}}
    \cup
    {[databaseId |-> 2, nameWithOwner |-> Name(<<98>>, <<>>), quad |-> Quad(150, 0, 0, Null),
      topics |-> {}, description |-> NoText, primaryLanguage |-> NoText]}

TrendBatches == UNION {[1..n -> TrendSnapshots] : n \in 1..MaxBatchLen}

\* The next daily pass: the engine is opened again a day later.
OpenPass ==
    /\ run_id # Null
    /\ resp = NoResponse
    /\ Cardinality(fetch_run) < MaxTrendRuns
    /\ run_id' = Null
    /\ processed' = {}
    /\ last' = [outcome |-> "open", applied |-> <<>>]
    /\ \E gap \in PassGaps : now' = now + gap
    /\ UNCHANGED aside
    /\ UNCHANGED <<repo, description, fetch_run, fetched_at, repo_latest,
                   repo_metrics_hist, repo_topic_latest, ingestedIn, displaced,
                   response_cache, resp, scan>>

\* The batch of a pass (one page of results per pass).
IngestTrend(nodes) ==
    /\ run_id = Null
    /\ resp = NoResponse
    /\ Ingest(nodes)

\* trending24h and trending3d (with daily passes and at most MaxTrendRuns
\* runs the longer windows reach no run).
TrendMetrics ==
    {<<116, 114, 101, 110, 100, 105, 110, 103, 50, 52, 104>>,
     <<116, 114, 101, 110, 100, 105, 110, 103, 51, 100>>}

\* RepoDB.leaderboard(metric) for a trending key, once the pass is stored:
\* the base run of the window and the first page.
Trend(metric) ==
    /\ run_id # Null
    /\ resp = NoResponse
    /\ resp' = [op |-> "trend", metric |-> metric,
                base |-> _base_run_id_for_window(DB, trending_map[metric]),
                items |-> leaderboard(DB, metric, 1, NoFilter).items]
    /\ UNCHANGED aside
    /\ UNCHANGED <<repo, description, fetch_run, fetched_at, repo_latest,
                   repo_metrics_hist, repo_topic_latest, run_id, processed, last,
                   ingestedIn, displaced, now, response_cache, scan>>

NextTrend ==
    \/ OpenPass
    \/ \E nodes \in TrendBatches : IngestTrend(nodes)
    \/ \E metric \in TrendMetrics : Trend(metric)

SpecTrend == Init /\ [][NextTrend]_vars

\* ------------------------------------- the cache, one call at a time
\* A cache built by LRUCache(max_size = CacheCapacity), one key more than
\* it holds, and two values a key may be set to.
CacheCapacity == 2

CacheKeys == {<<96 + i>> : i \in 1..(CacheCapacity + 1)}

CacheValues == {1, 2}

\* The keys of a cache.
KeysOf(cache) == {cache[i].key : i \in 1..Len(cache)}

\* The order of last use after key was used.
Touch(u, key) ==
    LET other(k) == k # key IN SelectSeq(u, other) \o <<key>>

\* cache.get(key)
CacheGet(key) ==
    /\ \E r \in {LRUCache_get(response_cache, key)} :
        /\ response_cache' = r.cache
        /\ resp' = [op |-> "get", key |-> key, hit |-> r.hit,
                    value |-> IF r.hit THEN r.value ELSE Null]
        /\ used' = IF r.hit THEN Touch(used, key) ELSE used
    /\ UNCHANGED <<repo, description, fetch_run, fetched_at, repo_latest,
                   repo_metrics_hist, repo_topic_latest, run_id, processed, last,
                   ingestedIn, displaced, now, scan, handlers, pending, live, crawl>>

\* cache.set(key, value); the response names the keys the call removed and
\* the key that was, when the call began to evict, the least recently used.
CacheSet(key, value) ==
    /\ \E c \in {LRUCache_put(CacheCapacity, response_cache, key, value)} :
        LET u == Touch(used, key)
            evicted == (KeysOf(response_cache) \cup {key}) \ KeysOf(c)
            kept(k) == k \notin evicted
        IN  /\ response_cache' = c
            /\ resp' = [op |-> "set", key |-> key, evicted |-> evicted, oldest |-> Head(u)]
            /\ used' = SelectSeq(u, kept)
    /\ UNCHANGED <<repo, description, fetch_run, fetched_at, repo_latest,
                   repo_metrics_hist, repo_topic_latest, run_id, processed, last,
                   ingestedIn, displaced, now, scan, handlers, pending, live, crawl>>

NextCache ==
    \/ \E key \in CacheKeys : CacheGet(key)
    \/ \E key \in CacheKeys, value \in CacheValues : CacheSet(key, value)

SpecCache == Init /\ [][NextCache]_vars

\* ---------------------------- the cache under concurrent handler threads
\* The routes are plain functions, which the framework runs in worker
\* threads; LRUCache takes no lock, so a thread may be suspended between
\* any two operations on the OrderedDict (each of them is atomic).

\* What a call of a thread returned or raised.
CacheResponse(op, t, key, outcome, value) ==
    [op |-> op, thread |-> t, key |-> key, outcome |-> outcome, value |-> value]

\* get, line 25: `if key in self.cache`; a miss returns None at once.
GetTest(t, key) ==
    /\ handlers[t] = Returned
    /\ IF CacheIndex(response_cache, key) # 0
       THEN /\ handlers' = [handlers EXCEPT ![t] = [pc |-> "move_to_end", key |-> key]]
            /\ UNCHANGED resp
       ELSE /\ resp' = CacheResponse("LRUCache.get", t, key, "miss", Null)
            /\ UNCHANGED handlers
    /\ UNCHANGED response_cache
    /\ UNCHANGED <<repo, description, fetch_run, fetched_at, repo_latest,
                   repo_metrics_hist, repo_topic_latest, run_id, processed, last,
                   ingestedIn, displaced, now, scan, used, pending, live, crawl>>

\* get, line 26: self.cache.move_to_end(key) raises KeyError for a key
\* that is no longer there.
GetMove(t) ==
    /\ handlers[t].pc = "move_to_end"
    /\ LET key == handlers[t].key
           i == CacheIndex(response_cache, key)
       IN  IF i = 0
           THEN /\ resp' = CacheResponse("LRUCache.get", t, key, "KeyError", Null)
                /\ handlers' = [handlers EXCEPT ![t] = Returned]
                /\ UNCHANGED response_cache
           ELSE /\ response_cache' = LRUCache_get(response_cache, key).cache
                /\ handlers' = [handlers EXCEPT ![t] = [pc |-> "getitem", key |-> key]]
                /\ UNCHANGED resp
    /\ UNCHANGED <<repo, description, fetch_run, fetched_at, repo_latest,
                   repo_metrics_hist, repo_topic_latest, run_id, processed, last,
                   ingestedIn, displaced, now, scan, used, pending, live, crawl>>

\* get, line 27: return self.cache[key]
GetItem(t) ==
    /\ handlers[t].pc = "getitem"
    /\ LET key == handlers[t].key
           i == CacheIndex(response_cache, key)
       IN  resp' = IF i = 0
                   THEN CacheResponse("LRUCache.get", t, key, "KeyError", Null)
                   ELSE CacheResponse("LRUCache.get", t, key, "hit", response_cache[i].value)
    /\ handlers' = [handlers EXCEPT ![t] = Returned]
    /\ UNCHANGED response_cache
    /\ UNCHANGED <<repo, description, fetch_run, fetched_at, repo_latest,
                   repo_metrics_hist, repo_topic_latest, run_id, processed, last,
                   ingestedIn, displaced, now, scan, used, pending, live, crawl>>

\* set, line 31: self.cache[key] = value (the assignment alone: no entry
\* is popped, whatever the length).
SetItem(t, key, value) ==
    /\ handlers[t] = Returned
    /\ response_cache' = LRUCache_put(Len(response_cache) + 1, response_cache, key, value)
    /\ handlers' = [handlers EXCEPT ![t] = [pc |-> "len", key |-> key]]
    /\ UNCHANGED resp
    /\ UNCHANGED <<repo, description, fetch_run, fetched_at, repo_latest,
                   repo_metrics_hist, repo_topic_latest, run_id, processed, last,
                   ingestedIn, displaced, now, scan, used, pending, live, crawl>>

\* set, line 32: if len(self.cache) > self.max_size
SetLen(t) ==
    /\ handlers[t].pc = "len"
    /\ IF Len(response_cache) > CacheCapacity
       THEN /\ handlers' = [handlers EXCEPT ![t] = [pc |-> "popitem", key |-> handlers[t].key]]
            /\ UNCHANGED resp
       ELSE /\ handlers' = [handlers EXCEPT ![t] = Returned]
            /\ resp' = CacheResponse("LRUCache.set", t, handlers[t].key, "done", Null)
    /\ UNCHANGED response_cache
    /\ UNCHANGED <<repo, description, fetch_run, fetched_at, repo_latest,
                   repo_metrics_hist, repo_topic_latest, run_id, processed, last,
                   ingestedIn, displaced, now, scan, used, pending, live, crawl>>

\* set, line 33: self.cache.popitem(last=False) raises KeyError when the
\* dictionary is empty.
SetPop(t) ==
    /\ handlers[t].pc = "popitem"
    /\ IF response_cache = <<>>
       THEN /\ resp' = CacheResponse("LRUCache.set", t, handlers[t].key, "KeyError", Null)
            /\ UNCHANGED response_cache
       ELSE /\ resp' = CacheResponse("LRUCache.set", t, handlers[t].key, "done", Null)
            /\ response_cache' = Tail(response_cache)
    /\ handlers' = [handlers EXCEPT ![t] = Returned]
    /\ UNCHANGED <<repo, description, fetch_run, fetched_at, repo_latest,
                   repo_metrics_hist, repo_topic_latest, run_id, processed, last,
                   ingestedIn, displaced, now, scan, used, pending, live, crawl>>

NextThreads ==
    \E t \in Threads :
        \/ \E key \in CacheKeys : GetTest(t, key)
        \/ GetMove(t)
        \/ GetItem(t)
        \/ \E key \in CacheKeys, value \in CacheValues : SetItem(t, key, value)
        \/ SetLen(t)
        \/ SetPop(t)

SpecThreads == Init /\ [][NextThreads]_vars

\* ------------------------- a batch, one transaction at a time, and a reader
\* upsert_from_github_nodes commits twice: the `with self.conn:` block of
\* lines 306-342 and that of lines 428-484.  Between the two the database
\* file holds the first without the second, which another connection reads
\* and which stays if the process is killed there.

\* Passes followed one transaction at a time.
MaxBatchRuns == 2

\* upsert_from_github_nodes up to the commit of the first block.  A call
\* that keeps no node, or raises before or in the first block, ends there.
BeginBatch(nodes) ==
    /\ pending = NoBatch
    /\ resp = NoResponse
    /\ last.outcome # "interrupted"
    /\ \E r \in {Upsert(DB, run_id, processed, nodes, now)} :
        IF r.outcome \in {"noop", "KeyError", "tx1"}
        THEN Ingest(nodes)
        ELSE LET d0 == [DB EXCEPT !.fetch_run = begin_run_table(run_id, fetch_run),
                                  !.fetched_at = begin_run_fetched_at(run_id, fetch_run,
                                                                      fetched_at, now)]
                 t1 == Tx1(d0, r.applied)
             IN  /\ repo' = t1.db.repo
                 /\ description' = t1.db.description
                 /\ fetch_run' = t1.db.fetch_run
                 /\ fetched_at' = t1.db.fetched_at
                 /\ repo_latest' = t1.db.repo_latest
                 /\ repo_metrics_hist' = t1.db.repo_metrics_hist
                 /\ repo_topic_latest' = t1.db.repo_topic_latest
                 /\ run_id' = r.run_id
                 /\ processed' = r.processed
                 /\ pending' = [phase |-> "tx1", fresh |-> r.applied, before |-> d0,
                                seen |-> processed]
                 /\ UNCHANGED <<last, ingestedIn, displaced, now, response_cache, resp,
                                scan, used, handlers, live, crawl>>

\* The rest of the call: the rows built from the nodes and the second block.
FinishBatch ==
    /\ pending.phase = "tx1"
    /\ resp = NoResponse
    /\ \E t2 \in {Tx2(DB, pending.fresh, run_id)} :
        /\ repo_latest' = t2.db.repo_latest
        /\ repo_metrics_hist' = t2.db.repo_metrics_hist
        /\ repo_topic_latest' = t2.db.repo_topic_latest
        /\ last' = [outcome |-> IF t2.ok THEN "ok" ELSE "tx2",
                    applied |-> IF t2.ok THEN pending.fresh ELSE <<>>]
        /\ ingestedIn' =
             IF t2.ok
             THEN [m \in RepoIds |->
                     IF m \in processed \ pending.seen
                     THEN ingestedIn[m] \cup {run_id} ELSE ingestedIn[m]]
             ELSE ingestedIn
        /\ displaced' =
             IF t2.ok
             THEN (displaced \cup
                     {m \in DOMAIN pending.before.repo : \E i \in 1..Len(pending.fresh) :
                         /\ pending.before.repo[m] = pending.fresh[i].nameWithOwner
                         /\ m # pending.fresh[i].databaseId})
                  \ (processed \ pending.seen)
             ELSE displaced
    /\ pending' = NoBatch
    /\ UNCHANGED <<repo, description, fetch_run, fetched_at, run_id, processed, now,
                   response_cache, resp, scan, used, handlers, live, crawl>>

\* The process is killed between the two blocks: the pass is over, the
\* first block stays committed.
Interrupt ==
    /\ pending.phase = "tx1"
    /\ resp = NoResponse
    /\ pending' = NoBatch
    /\ last' = [outcome |-> "interrupted", applied |-> <<>>]
    /\ UNCHANGED <<repo, description, fetch_run, fetched_at, repo_latest,
                   repo_metrics_hist, repo_topic_latest, run_id, processed,
                   ingestedIn, displaced, now, response_cache, resp, scan, used,
                   handlers, live, crawl>>

\* The next pass, on the same file.
NextPass ==
    /\ pending = NoBatch
    /\ resp = NoResponse
    /\ Cardinality(fetch_run) < MaxBatchRuns
    /\ OpenEngine

\* Another connection to the file reads the first page of the leaderboard
\* of stars.
ReadLeaderboard ==
    /\ resp = NoResponse
    /\ resp' = [op |-> "read",
                items |-> leaderboard(DB, <<115, 116, 97, 114, 115>>, 1, NoFilter).items]
    /\ UNCHANGED <<repo, description, fetch_run, fetched_at, repo_latest,
                   repo_metrics_hist, repo_topic_latest, run_id, processed, last,
                   ingestedIn, displaced, now, response_cache, scan, used,
                   handlers, pending, live, crawl>>

NextBatch ==
    \/ \E nodes \in Batches : BeginBatch(nodes)
    \/ FinishBatch
    \/ Interrupt
    \/ NextPass
    \/ ReadLeaderboard

SpecBatch == Init /\ [][NextBatch]_vars

\* ------------------------------------------- topics as upstream sends them
\* repositoryTopics.nodes of a node is a list of entries {"topic": {"name":
\* ...}}; an entry is modelled by its name, NoText for an entry that has no
\* "topic" or no "name".  The list may name a topic twice.
MaxTopics == 2

MaxTopicRuns == 2

TopicEntries == {<<116>>, <<117>>, NoText}

\* No topic, one topic, a topic named twice, two topics, and a topic next
\* to an entry without a name.
TopicLists ==
    {rt \in UNION {[1..n -> TopicEntries] : n \in 0..MaxTopics} :
        rt \in {<<>>, <<<<116>>>>, <<<<116>>, <<116>>>>, <<<<116>>, <<117>>>>,
                 <<<<117>>, NoText>>}}

\* "a" and "b", which no rename produces from one another.
TopicRepoNames == {Name(<<97>>, <<>>), Name(<<98>>, <<>>)}

RawSnapshots ==
    [databaseId : RepoIds, nameWithOwner : TopicRepoNames,
     quad : {Quad(1, 0, 0, Null)}, repositoryTopics : TopicLists,
     description : UpstreamDescriptions, primaryLanguage : UpstreamLanguages]

\* Pages of one repo, and pages of repos 1 and 2 in this order.
RawBatches ==
    {<<n>> : n \in RawSnapshots} \cup
    {<<n1, n2>> : n1 \in {n \in RawSnapshots : n.databaseId = 1 /\ Len(n.repositoryTopics) = MaxTopics},
                  n2 \in {n \in RawSnapshots : n.databaseId = MaxRepoId /\ Len(n.repositoryTopics) = 1}}

\* The loop over rt["nodes"]: the list `topics` of the names that are
\* non-empty strings, in order, duplicates kept.
RECURSIVE topics(_)
topics(rt) ==
    IF rt = <<>> THEN <<>>
    ELSE IF Head(rt) # NoText /\ Head(rt) # <<>>
         THEN <<Head(rt)>> \o topics(Tail(rt))
         ELSE topics(Tail(rt))

\* topic_pairs_to_insert of one node, as INSERT OR IGNORE stores them: a
\* pair named twice is one row.
TopicPairs(n) == {topics(n.repositoryTopics)[k] : k \in 1..Len(topics(n.repositoryTopics))}

\* The node as the ingestion uses it.
Parsed(n) ==
    [databaseId |-> n.databaseId, nameWithOwner |-> n.nameWithOwner, quad |-> n.quad,
     topics |-> TopicPairs(n), description |-> n.description,
     primaryLanguage |-> n.primaryLanguage]

\* upsert_from_github_nodes(nodes) on a page of upstream nodes; the page is
\* kept in `pending` as the argument of the last call.
IngestTopics(raws) ==
    /\ UpsertCall([i \in 1..Len(raws) |-> Parsed(raws[i])])
    /\ pending' = [phase |-> "called", nodes |-> raws]
    /\ UNCHANGED <<used, handlers, live, crawl>>

\* The next pass, on the same file.
TopicPass ==
    /\ Cardinality(fetch_run) < MaxTopicRuns
    /\ OpenEngine

NextTopic ==
    \/ TopicPass
    \/ \E raws \in RawBatches : IngestTopics(raws)

SpecTopic == Init /\ [][NextTopic]_vars

\* ------------------------------------------- deployment and the server
\* deploy_site replaces the file the serving process reads.  A database
\* file is modelled by its version: 0 before the first deployment, one more
\* for each crawled file copied over it.  A response is modelled by the
\* version of the database it was computed from.
MaxDeploys == 2

\* subprocess.run(["pm2", ...], check=False) inside try/except: the command
\* may do its work, or exit with an error or not start at all, which the
\* code prints at most a warning about.
Pm2Outcomes == {"done", "failed"}

\* Lines 149-153: pm2 stop.  A stopped process loses its memory.
DeployStop(outcome) ==
    /\ resp = NoResponse
    /\ live.step = "idle"
    /\ live.file < MaxDeploys
    /\ live' = [live EXCEPT !.step = "stop",
                            !.server = IF outcome = "done" THEN "stopped" ELSE @]
    /\ response_cache' = IF outcome = "done" THEN <<>> ELSE response_cache
    /\ UNCHANGED <<repo, description, fetch_run, fetched_at, repo_latest,
                   repo_metrics_hist, repo_topic_latest, run_id, processed, last,
                   ingestedIn, displaced, now, resp, scan, used, handlers,
                   pending, crawl>>

\* Lines 155-159: os.remove(LIVE_DB_PATH) and shutil.copy2.  A process that
\* has the old file open keeps reading the old file.
DeploySwap ==
    /\ resp = NoResponse
    /\ live.step = "stop"
    /\ live' = [live EXCEPT !.step = "swap", !.file = @ + 1]
    /\ UNCHANGED <<repo, description, fetch_run, fetched_at, repo_latest,
                   repo_metrics_hist, repo_topic_latest, run_id, processed, last,
                   ingestedIn, displaced, now, response_cache, resp, scan, used,
                   handlers, pending, crawl>>

\* Lines 187-191: pm2 restart.  A started process runs app.py from the top:
\* db = RepoDB(DB_PATH) opens the file and response_cache is empty.
DeployRestart(outcome) ==
    /\ resp = NoResponse
    /\ live.step = "swap"
    /\ live' = IF outcome = "done"
               THEN [live EXCEPT !.step = "idle", !.server = "up", !.opened = live.file]
               ELSE [live EXCEPT !.step = "idle"]
    /\ response_cache' = IF outcome = "done" THEN <<>> ELSE response_cache
    /\ UNCHANGED <<repo, description, fetch_run, fetched_at, repo_latest,
                   repo_metrics_hist, repo_topic_latest, run_id, processed, last,
                   ingestedIn, displaced, now, resp, scan, used, handlers,
                   pending, crawl>>

\* A request for key: the cached response if there is one, else a response
\* computed from the open database and cached.
Serve(key) ==
    /\ resp = NoResponse
    /\ live.server = "up"
    /\ \E r \in {LRUCache_get(response_cache, key)} :
        IF r.hit
        THEN /\ response_cache' = r.cache
             /\ resp' = [op |-> "serve", key |-> key, version |-> r.value]
        ELSE /\ response_cache' = LRUCache_set(r.cache, key, live.opened)
             /\ resp' = [op |-> "serve", key |-> key, version |-> live.opened]
    /\ UNCHANGED <<repo, description, fetch_run, fetched_at, repo_latest,
                   repo_metrics_hist, repo_topic_latest, run_id, processed, last,
                   ingestedIn, displaced, now, scan, used, handlers, pending,
                   live, crawl>>

\* The response has been sent.
Sent ==
    /\ resp # NoResponse
    /\ resp' = NoResponse
    /\ UNCHANGED <<repo, description, fetch_run, fetched_at, repo_latest,
                   repo_metrics_hist, repo_topic_latest, run_id, processed, last,
                   ingestedIn, displaced, now, response_cache, scan, used,
                   handlers, pending, live, crawl>>

NextDeploy ==
    \/ \E outcome \in Pm2Outcomes : DeployStop(outcome)
    \/ DeploySwap
    \/ \E outcome \in Pm2Outcomes : DeployRestart(outcome)
    \/ \E key \in CacheKeys : Serve(key)
    \/ Sent

SpecDeploy == Init /\ [][NextDeploy]_vars

\* ------------------------------------------------------ the crawl (crawler.py)
MIN_STARS == 1000

\* `while attempts < 10` of execute_query.
max_attempts == 10

\* `first: 100` of GRAPHQL_QUERY and `if len(batch_repos) >= 1000`.
first == 100

max_results == 1000

\* Upstream has repos of MIN_STARS .. MIN_STARS + MaxStarSteps stars.
MaxStarSteps == 2

\* Rate-limit sleeps followed within one execute_query call.
MaxSleeps == 1

\* Failed POSTs followed within one execute_query call.
MaxFailures == 11

StarCounts == MIN_STARS..(MIN_STARS + MaxStarSteps)

\* Sizes of a page of results: empty, short (the last page) or full.
PageCounts == {0, first \div 2, first}

\* A crawl at the start of an execute_query call.
Calling(c) ==
    [c EXCEPT !.pc = "post", !.attempts = 0, !.failed = 0, !.slept = 0,
              !.response = "none"]

\* crawl() up to the first query: gh, db = RepoDB(DB_PATH),
\* current_min_stars = MIN_STARS, an empty batch_repos.
StartCrawl ==
    /\ crawl = NoCrawl
    /\ crawl' = [pc |-> "post", engine |-> "open", current_min_stars |-> MIN_STARS,
                 batch_len |-> 0, last_repo_stars |-> Null, has_next_page |-> TRUE,
                 attempts |-> 0, failed |-> 0, slept |-> 0, response |-> "none",
                 cause |-> "none"]
    /\ UNCHANGED <<repo, description, fetch_run, fetched_at, repo_latest,
                   repo_metrics_hist, repo_topic_latest, run_id, processed, last,
                   ingestedIn, displaced, now, response_cache, resp, scan, used,
                   handlers, pending, live>>

\* What is left of the crawl when an exception leaves crawl(); `response`
\* is what the last POST of the call ended with.
Aborted(c, cause) == [c EXCEPT !.pc = "aborted", !.cause = cause]

\* The POST returns 200 with a page of `count` nodes and enough quota left:
\* execute_query returns, and the body of the inner loop runs (lines
\* 214-231).  The nodes have at least current_min_stars stars and come in
\* ascending order of stars (stars: those of the last node, Null for an
\* empty page); a short page is the last one.
ReturnPage(count, stars, next) ==
    /\ crawl.pc = "post"
    /\ (count = 0) = (stars = Null)
    /\ count > 0 => stars >= crawl.current_min_stars
    /\ (count > 0 /\ crawl.batch_len > 0) => stars >= crawl.last_repo_stars
    /\ count < first => ~next
    /\ crawl' =
         IF count = 0 THEN [crawl EXCEPT !.pc = "paged", !.response = "200"]
         ELSE LET c == [crawl EXCEPT !.response = "200",
                                     !.batch_len = @ + count,
                                     !.last_repo_stars = stars,
                                     !.has_next_page = next]
              IN  IF c.batch_len >= max_results \/ ~next
                  THEN [c EXCEPT !.pc = "paged"]
                  ELSE Calling(c)
    /\ UNCHANGED <<repo, description, fetch_run, fetched_at, repo_latest,
                   repo_metrics_hist, repo_topic_latest, run_id, processed, last,
                   ingestedIn, displaced, now, response_cache, resp, scan, used,
                   handlers, pending, live>>

\* Mutant: a network error is retried without being counted.
AfterNetworkError_uncounted(attempts) == attempts

\* except requests.exceptions.RequestException: attempts += 1
AfterNetworkError(attempts) == attempts + 1

\* The crawl after a failed POST that left `attempts` attempts counted:
\* the loop goes on, or `raise Exception("Max retries exceeded.")`.
Retry(c, response, attempts) ==
    LET d == [c EXCEPT !.attempts = attempts, !.failed = @ + 1,
                       !.response = response] IN
    IF attempts < max_attempts THEN d ELSE Aborted(d, "Max retries exceeded.")

\* The POST returns a status 500..504.
ServerError ==
    /\ crawl.pc = "post"
    /\ crawl.failed < MaxFailures
    /\ crawl' = Retry(crawl, "5xx", crawl.attempts + 1)
    /\ UNCHANGED <<repo, description, fetch_run, fetched_at, repo_latest,
                   repo_metrics_hist, repo_topic_latest, run_id, processed, last,
                   ingestedIn, displaced, now, response_cache, resp, scan, used,
                   handlers, pending, live>>

\* The POST raises a requests.exceptions.RequestException.
NetworkError ==
    /\ crawl.pc = "post"
    /\ crawl.failed < MaxFailures
    /\ crawl' = Retry(crawl, "RequestException", AfterNetworkError(crawl.attempts))
    /\ UNCHANGED <<repo, description, fetch_run, fetched_at, repo_latest,
                   repo_metrics_hist, repo_topic_latest, run_id, processed, last,
                   ingestedIn, displaced, now, response_cache, resp, scan, used,
                   handlers, pending, live>>

\* The signals of an exhausted quota: status 403 with X-RateLimit-Remaining
\* "0", and status 200 with a RATE_LIMITED error.
QuotaSignals == {"403", "RATE_LIMITED"}

\* _handle_rate_limit sleeps and returns True; the loop continues without
\* counting an attempt.
RateLimited(signal) ==
    /\ crawl.pc = "post"
    /\ crawl.slept < MaxSleeps
    /\ crawl' = [crawl EXCEPT !.slept = @ + 1, !.response = signal]
    /\ UNCHANGED <<repo, description, fetch_run, fetched_at, repo_latest,
                   repo_metrics_hist, repo_topic_latest, run_id, processed, last,
                   ingestedIn, displaced, now, response_cache, resp, scan, used,
                   handlers, pending, live>>

\* The POST returns 200 with rateLimit.remaining < 10: line 85 subtracts
\* datetime.now(tz=timezone.utc), which is aware, from the result of
\* strptime, which is naive; the TypeError is no RequestException and
\* leaves execute_query and crawl().
LowQuota ==
    /\ crawl.pc = "post"
    /\ crawl' = Aborted([crawl EXCEPT !.response = "200"], "remaining < 10")
    /\ UNCHANGED <<repo, description, fetch_run, fetched_at, repo_latest,
                   repo_metrics_hist, repo_topic_latest, run_id, processed, last,
                   ingestedIn, displaced, now, response_cache, resp, scan, used,
                   handlers, pending, live>>

\* Lines 106 and 114: a 200 with errors that are no rate-limit errors, or
\* a status that is neither 200, 403 with no quota, nor 500..504.
Refusals == {"GraphQL returned errors", "Request failed"}

Refused(why) ==
    /\ crawl.pc = "post"
    /\ crawl' = Aborted([crawl EXCEPT !.response = why], why)
    /\ UNCHANGED <<repo, description, fetch_run, fetched_at, repo_latest,
                   repo_metrics_hist, repo_topic_latest, run_id, processed, last,
                   ingestedIn, displaced, now, response_cache, resp, scan, used,
                   handlers, pending, live>>

\* Mutant: the cursor is always set to the stars of the last result.
NextMinStars_last(current_min_stars, last_repo_stars) == last_repo_stars

\* Lines 239-242.
NextMinStars(current_min_stars, last_repo_stars) ==
    IF last_repo_stars = current_min_stars THEN current_min_stars + 1
    ELSE last_repo_stars

\* A node as GRAPHQL_QUERY selects it: the query does not ask for
\* databaseId, so n.get("databaseId") is None.  It stands for every node
\* of batch_repos.
CrawledNode(stars) ==
    [databaseId |-> Null, nameWithOwner |-> Name(<<97>>, <<>>),
     quad |-> Quad(stars, 0, 0, Null), topics |-> {},
     description |-> NoText, primaryLanguage |-> NoText]

\* Lines 237-243 after a page-through with results: the cursor moves and
\* the batch goes to upsert_from_github_nodes; then the next query.
Advance ==
    /\ crawl.pc = "paged"
    /\ crawl.batch_len > 0
    /\ UpsertCall(<<CrawledNode(crawl.last_repo_stars)>>)
    /\ crawl' = Calling([crawl EXCEPT
                    !.current_min_stars = NextMinStars(@, crawl.last_repo_stars),
                    !.batch_len = 0, !.last_repo_stars = Null,
                    !.has_next_page = TRUE])
    /\ UNCHANGED <<used, handlers, pending, live>>

\* Lines 233-235 and 244: the page-through had no result; the loop ends and
\* db.close() runs.  deploy_site(DB_PATH) follows.
Finish ==
    /\ crawl.pc = "paged"
    /\ crawl.batch_len = 0
    /\ crawl' = [crawl EXCEPT !.pc = "deploy", !.engine = "closed"]
    /\ UNCHANGED <<repo, description, fetch_run, fetched_at, repo_latest,
                   repo_metrics_hist, repo_topic_latest, run_id, processed, last,
                   ingestedIn, displaced, now, response_cache, resp, scan, used,
                   handlers, pending, live>>

\* Line 245: the steps of deploy_site, once.
CrawlDeploy ==
    /\ crawl.pc = "deploy"
    /\ \/ live.file = 0 /\ \E outcome \in Pm2Outcomes : DeployStop(outcome)
       \/ DeploySwap
       \/ \E outcome \in Pm2Outcomes : DeployRestart(outcome)

NextCrawl ==
    \/ StartCrawl
    \/ \E count \in PageCounts, stars \in StarCounts \cup {Null}, next \in BOOLEAN :
            ReturnPage(count, stars, next)
    \/ ServerError
    \/ NetworkError
    \/ \E signal \in QuotaSignals : RateLimited(signal)
    \/ LowQuota
    \/ \E why \in Refusals : Refused(why)
    \/ Advance
    \/ Finish
    \/ CrawlDeploy

SpecCrawl == Init /\ [][NextCrawl]_vars

\* ------------------------------------------------- vocabulary of claims
QuadOf(row) == Quad(row.stars, row.forks, row.watchers, row.disk_usage)

HistOf(histTbl, m) == {h \in histTbl : h.repo_id = m}

Interval(h) == h.start_run_id .. h.end_run_id

Min(S) == CHOOSE x \in S : \A y \in S : x <= y

\* The repo ids applied by the call that led to this state.
AppliedIds(l) == {l.applied[i].databaseId : i \in 1..Len(l.applied)}

\* Two history rows with equal metrics and no row between them exist only
\* for a repo whose repo_latest row was deleted by a name conflict and that
\* was ingested again later.
Reappeared(m) ==
    \E h1, h2 \in HistOf(repo_metrics_hist, m) :
        /\ h1.end_run_id < h2.start_run_id
        /\ QuadOf(h1) = QuadOf(h2)
        /\ \A h \in HistOf(repo_metrics_hist, m) :
              ~(h1.end_run_id < h.start_run_id /\ h.start_run_id < h2.start_run_id)

\* --------------------------------------------------------------- C1
\* C1: every repo_latest row has a repo_metrics_hist row of the same repo
\* with start_run_id = history_start_run_id, and that row carries the same
\* (stars, forks, watchers, disk_usage).
C1_LatestHasSegment ==
    \A m \in DOMAIN repo_latest :
        \E h \in HistOf(repo_metrics_hist, m) :
            /\ h.start_run_id = repo_latest[m].history_start_run_id
            /\ QuadOf(h) = QuadOf(repo_latest[m])

\* A repo whose current segment was extended over a later run and that has
\* an older segment with other metrics.
C1_Witness ==
    \E m \in DOMAIN repo_latest :
        /\ repo_latest[m].history_start_run_id < repo_latest[m].run_id
        /\ \E h \in HistOf(repo_metrics_hist, m) :
              /\ h.start_run_id < repo_latest[m].history_start_run_id
              /\ QuadOf(h) # QuadOf(repo_latest[m])

\* --------------------------------------------------------------- C2
\* C2: for every repo the intervals [start_run_id, end_run_id] of its
\* history rows have start <= end, are pairwise disjoint, and the largest
\* end_run_id is the latest run in which the repo was ingested; also for a
\* repo displaced by a name conflict that reappeared.
C2_IntervalsDisjointAndCurrent ==
    \A m \in RepoIds :
        LET H == HistOf(repo_metrics_hist, m) IN
        /\ \A h \in H : h.start_run_id <= h.end_run_id
        /\ \A h1, h2 \in H : h1 # h2 => Interval(h1) \cap Interval(h2) = {}
        /\ (H = {}) = (ingestedIn[m] = {})
        /\ H # {} => Max({h.end_run_id : h \in H}) = Max(ingestedIn[m])

\* A displaced repo that reappeared and whose new segment was extended.
C2_Witness ==
    \E m \in DOMAIN repo_latest :
        /\ Reappeared(m)
        /\ repo_latest[m].history_start_run_id < repo_latest[m].run_id

\* --------------------------------------------------------------- C3
\* C3: for a repo ingested in runs R1 < ... < Rn (it may be absent from
\* runs in between) the union of its history intervals is exactly the
\* range R1..Rn, without gap and without overlap.
C3_SegmentCoverage ==
    \A m \in RepoIds :
        LET H == HistOf(repo_metrics_hist, m) IN
        ingestedIn[m] # {} =>
            /\ UNION {Interval(h) : h \in H} = Min(ingestedIn[m]) .. Max(ingestedIn[m])
            /\ \A h1, h2 \in H : h1 # h2 => Interval(h1) \cap Interval(h2) = {}

\* --------------------------------------------------------------- C4
\* The history row of repo m that the previous run wrote or extended.
PrevRunRow(m, run) ==
    {h \in HistOf(repo_metrics_hist, m) : h.end_run_id = run - 1}

\* C4: when the run before the current one delivered repo m with the same
\* (stars, forks, watchers, disk_usage) as the snapshot applied now, no
\* history row is added for m: the row of the previous run keeps its
\* start_run_id and gets end_run_id = the current run, repo_latest.run_id
\* is the current run and history_start_run_id is that row's start;
\* whatever else was ingested in the two runs.
C4_Step ==
    \A i \in 1..Len(last'.applied) :
        LET n == last'.applied[i]
            m == n.databaseId
        IN  \A h \in PrevRunRow(m, run_id') :
                (run_id' - 1 \in ingestedIn[m] /\ QuadOf(h) = n.quad) =>
                    /\ HistOf(repo_metrics_hist', m) =
                          (HistOf(repo_metrics_hist, m) \ {h})
                              \cup {[h EXCEPT !.end_run_id = run_id']}
                    /\ repo_latest'[m].run_id = run_id'
                    /\ repo_latest'[m].history_start_run_id = h.start_run_id

\* C4: every step keeps the single covering row when the metrics repeat.
C4_ChangeExtension == [][C4_Step]_vars

\* --------------------------------------------------------------- C5
\* C5: when the applied snapshot's metrics differ from the repo's
\* repo_latest row, or the repo has none, the call adds exactly one history
\* row for the repo, [run, run] with the snapshot's metrics, sets
\* history_start_run_id to the run, and leaves the repo's earlier history
\* rows as they were.
C5_Step ==
    \A i \in 1..Len(last'.applied) :
        LET n == last'.applied[i]
            m == n.databaseId
        IN  (m \notin DOMAIN repo_latest \/ QuadOf(repo_latest[m]) # n.quad) =>
                /\ HistOf(repo_metrics_hist', m) \ HistOf(repo_metrics_hist, m) =
                      {[repo_id |-> m, start_run_id |-> run_id', end_run_id |-> run_id',
                        stars |-> n.quad.stars, forks |-> n.quad.forks,
                        watchers |-> n.quad.watchers, disk_usage |-> n.quad.disk_usage]}
                /\ HistOf(repo_metrics_hist, m) \subseteq repo_metrics_hist'
                /\ repo_latest'[m].history_start_run_id = run_id'

\* C5: every step opens exactly one new segment when the metrics differ.
C5_NewSegment == [][C5_Step]_vars

\* The last call opened a segment for a repo that has an older segment
\* with other metrics.
C5_Witness ==
    \E i \in 1..Len(last.applied) :
        LET m == last.applied[i].databaseId IN
        /\ repo_latest[m].history_start_run_id = run_id
        /\ \E h \in HistOf(repo_metrics_hist, m) :
              h.end_run_id < run_id /\ QuadOf(h) # last.applied[i].quad

LosersOf(n) ==
    {m \in DOMAIN repo : repo[m] = n.nameWithOwner /\ m # n.databaseId}

AppliedNames(l) == {l.applied[i].nameWithOwner : i \in 1..Len(l.applied)}

\* C7: when the batch carries (id N, name X) and a row M # N has name X,
\* then after the batch row M is named X-renamed-N and row N is named X.
C7_Step_IncomingId ==
    \A i \in 1..Len(last'.applied) :
        LET n == last'.applied[i] IN
        \A m \in LosersOf(n) :
            /\ repo'[m] = Name(n.nameWithOwner.base, Append(n.nameWithOwner.ren, n.databaseId))
            /\ repo'[n.databaseId] = n.nameWithOwner

\* C7: every step renames the displaced row with the incoming id.
C7_RenamedToIncomingId == [][C7_Step_IncomingId]_vars

\* C7 as amended: row N is named X, and row M is named X-renamed-M, the
\* suffix being M's own id, unless the batch also carries a snapshot of M
\* or a snapshot that claims the name X-renamed-M.
C7_Step_OwnId ==
    \A i \in 1..Len(last'.applied) :
        LET n == last'.applied[i] IN
        \A m \in LosersOf(n) :
            LET new == Name(n.nameWithOwner.base, Append(n.nameWithOwner.ren, m)) IN
            /\ repo'[n.databaseId] = n.nameWithOwner
            /\ (m \notin AppliedIds(last') /\ new \notin AppliedNames(last')) => repo'[m] = new

\* C7 as amended: every step renames the displaced row with its own id.
C7_RenamedToOwnId == [][C7_Step_OwnId]_vars

\* The last call displaced a repo that is not in its batch: the displaced
\* row carries the claimed name with its own id as suffix.
C7_Witness ==
    \E i \in 1..Len(last.applied) : \E m \in displaced :
        LET n == last.applied[i] IN
        /\ m # n.databaseId
        /\ repo[n.databaseId] = n.nameWithOwner
        /\ repo[m] = Name(n.nameWithOwner.base, Append(n.nameWithOwner.ren, m))

\* --------------------------------------------------------------- C8
TopicsOf(topicTbl, m) == {p \in topicTbl : p[1] = m}

\* C8: a repo whose name an applied snapshot of another id takes keeps its
\* repo row and all its history rows unchanged, and loses its repo_latest
\* row and its repo_topic_latest rows (a loser that is itself in the batch
\* gets new rows from its own snapshot: a new segment, since its
\* repo_latest row was gone).
C8_Step ==
    \A i \in 1..Len(last'.applied) :
        \A m \in LosersOf(last'.applied[i]) :
            /\ m \in DOMAIN repo'
            /\ HistOf(repo_metrics_hist, m) \subseteq repo_metrics_hist'
            /\ m \notin AppliedIds(last') =>
                  /\ m \notin DOMAIN repo_latest'
                  /\ TopicsOf(repo_topic_latest', m) = {}
                  /\ HistOf(repo_metrics_hist', m) = HistOf(repo_metrics_hist, m)
            /\ m \in AppliedIds(last') =>
                  repo_latest'[m].history_start_run_id = run_id'

\* C8: every step deletes the loser's current rows and keeps its history.
C8_LoserFrame == [][C8_Step]_vars

\* The last call displaced a repo with history that is not in its batch.
C8_Witness ==
    \E m \in displaced :
        /\ last.outcome = "ok"
        /\ m \notin AppliedIds(last)
        /\ \E i \in 1..Len(last.applied) :
              repo[m] = Name(last.applied[i].nameWithOwner.base,
                             Append(last.applied[i].nameWithOwner.ren, m))
        /\ HistOf(repo_metrics_hist, m) # {}
        /\ TopicsOf(repo_topic_latest, m) = {}

\* --------------------------------------------------------------- C9
\* C9: no two repo rows share a name_with_owner.
C9_NameUnique ==
    \A m1, m2 \in DOMAIN repo : m1 # m2 => repo[m1] # repo[m2]

\* Two repos that were both displaced and both ingested again by the last
\* call (a batch that exchanges names between existing ids ends here).
C9_Witness ==
    /\ Len(last.applied) = 2
    /\ \A m \in AppliedIds(last) : Reappeared(m) /\ repo_latest[m].history_start_run_id = run_id
    /\ Cardinality(AppliedIds(last)) = 2

\* -------------------------------------------------------------- C10
\* C10: the first call of a pass adds one fetch_run row whose id is larger
\* than every earlier one, later calls of the pass add none and use the
\* same run id, and every repo_latest row and history row the call writes
\* carries that run id.
C10_Step ==
    /\ (run_id = Null /\ run_id' # Null) =>
          /\ run_id' \notin fetch_run
          /\ fetch_run' = fetch_run \cup {run_id'}
          /\ \A r \in fetch_run : r < run_id'
    /\ (run_id # Null /\ run_id' # Null) => run_id' = run_id /\ fetch_run' = fetch_run
    /\ run_id' = Null => fetch_run' = fetch_run
    /\ \A m \in DOMAIN repo_latest' :
          (m \notin DOMAIN repo_latest \/ repo_latest'[m] # repo_latest[m]) =>
              repo_latest'[m].run_id = run_id'
    /\ \A h \in repo_metrics_hist' \ repo_metrics_hist :
          /\ h.end_run_id = run_id'
          /\ \/ h.start_run_id = run_id'
             \/ \E h0 \in repo_metrics_hist : h = [h0 EXCEPT !.end_run_id = run_id']

\* C10: every step keeps to the one run id of its pass.
C10_RunLifecycle == [][C10_Step]_vars

\* The second pass has applied its second batch, under one run id.
C10_Witness ==
    /\ Cardinality(fetch_run) = 2
    /\ run_id = 2
    /\ Cardinality(processed) = 2
    /\ Len(last.applied) = 1
    /\ \A m \in processed : m \in DOMAIN repo_latest /\ repo_latest[m].run_id = 2

\* ------------------------------------------------------------------ C11
\* The ids whose snapshot was ingested (its batch applied) in this pass.
IngestedThisPass == {m \in RepoIds : run_id # Null /\ run_id \in ingestedIn[m]}

\* The batch without the snapshots of ids in `done` and without the later
\* snapshots of an id that occurs twice.
RECURSIVE FirstOccurrences(_, _)
FirstOccurrences(nodes, done) ==
    IF nodes = <<>> THEN <<>>
    ELSE IF Head(nodes).databaseId \in done
         THEN FirstOccurrences(Tail(nodes), done)
         ELSE <<Head(nodes)>> \o
              FirstOccurrences(Tail(nodes), done \cup {Head(nodes).databaseId})

\* C11: in every state any batch leaves the database as the same batch
\* does without the snapshots of ids already ingested in this pass and
\* without repeated ids, and a batch made of such snapshots only leaves
\* every table unchanged.
C11_DuplicatesDropped ==
    \A nodes \in Batches :
        \A r \in {Upsert(DB, run_id, processed, nodes, now)} :
            /\ r.db = Upsert(DB, run_id, processed,
                            FirstOccurrences(nodes, IngestedThisPass), now).db
            /\ (\A i \in 1..Len(nodes) : nodes[i].databaseId \in IngestedThisPass)
                    => r.db = DB

\* A batch of snapshots of ids ingested earlier in the pass was dropped.
C11_Witness ==
    /\ last.outcome = "noop"
    /\ processed # {}
    /\ processed = IngestedThisPass

\* ------------------------------------------------------------------ C12
\* The outcomes of upsert_from_github_nodes that are a raised exception.
FailureOutcomes == {"KeyError", "tx1", "TypeError", "tx2"}

C12_Step ==
    last'.outcome \in FailureOutcomes =>
        /\ repo' = repo
        /\ description' = description
        /\ repo_latest' = repo_latest
        /\ repo_metrics_hist' = repo_metrics_hist
        /\ repo_topic_latest' = repo_topic_latest

\* C12: a call of upsert_from_github_nodes that raises leaves the tables
\* repo, repo_latest, repo_metrics_hist and repo_topic_latest as they
\* were before the call.
C12_FailedBatchRolledBack == [][C12_Step]_vars

\* ------------------------------------------------------------------ C13
\* Malformed in the sense of the claim: no usable id, or no name.
IsMalformed(n) == ~(n.databaseId > 0) \/ n.nameWithOwner = NoName

RECURSIVE WellFormedOnly(_)
WellFormedOnly(nodes) ==
    IF nodes = <<>> THEN <<>>
    ELSE IF IsMalformed(Head(nodes)) THEN WellFormedOnly(Tail(nodes))
         ELSE <<Head(nodes)>> \o WellFormedOnly(Tail(nodes))

\* C13: in every state, a batch that carries snapshots without a usable
\* id or without a name ends as the batch without them does (same
\* outcome, no exception of its own) and leaves the same database.
C13_MalformedSkipped ==
    \A nodes \in FaultBatches :
        (\A i \in 1..Len(nodes) : nodes[i].quad.stars # BadInt) =>
            \A r \in {Upsert(DB, run_id, processed, nodes, now)},
               w \in {Upsert(DB, run_id, processed, WellFormedOnly(nodes), now)} :
                /\ r.outcome = w.outcome
                /\ r.db = w.db

\* ------------------------------------------------------------------ C14
\* The pages a client has read, one after the other.
RECURSIVE Flatten(_)
Flatten(pages) == IF pages = <<>> THEN <<>> ELSE Head(pages) \o Flatten(Tail(pages))

\* C14: the rank get_global_rank returns for the name of a repo with a
\* repo_latest row is the one position at which the unfiltered
\* leaderboard of stars, read page by page, lists that name (so no two
\* repos share a rank); it returns None for a name without such a row.
C14_RankAgreesWithLeaderboard ==
    resp.op = "rank" =>
        LET all == Flatten(scan.pages)
            at == {i \in 1..Len(all) : all[i].n = resp.name}
        IN  IF \E m \in DOMAIN repo_latest : repo[m] = resp.name
            THEN at = {resp.rank}
            ELSE resp.rank = Null /\ at = {}

\* The rank of a repo of the third page, which shares its stars with others.
C14_Witness ==
    /\ resp.op = "rank"
    /\ resp.rank > 2 * page_size
    /\ \E m \in DOMAIN repo_latest :
        /\ repo[m] # resp.name
        /\ \E k \in DOMAIN repo_latest :
                repo[k] = resp.name /\ repo_latest[k].stars = repo_latest[m].stars

\* ------------------------------------------------------------------ C15
\* The repos a filter tuple selects among those with a current row.
Matching(f) == {m \in DOMAIN repo_latest : _prepare_filter_conditions(DB, m, f)}

\* The two values a metric orders an item by, before the name.
ItemKeys(metric, it) ==
    IF metric \in DOMAIN trending_map
    THEN <<IF it.ns = Null THEN 0 ELSE it.ns, it.s>>
    ELSE CASE metric_map[metric] = "stars" -> <<it.s, 0>>
           [] metric_map[metric] = "forks" -> <<it.f, 0>>
           [] metric_map[metric] = "watchers" -> <<it.w, 0>>
           [] metric_map[metric] = "disk_usage" -> <<it.d, 0>>

\* Item a stands strictly before item b in the metric's order.
InOrder(metric, a, b) ==
    LET ka == ItemKeys(metric, a)
        kb == ItemKeys(metric, b)
    IN  \/ ka[1] > kb[1]
        \/ ka[1] = kb[1] /\ ka[2] > kb[2]
        \/ ka = kb /\ TextLess(Str(a.n), Str(b.n))

\* C15: for the filter tuple and metric of a scan, total is the number of
\* matching repos and totalPages = ceil(total / 100), 1 when total is 0;
\* every page read before the last has exactly 100 items and no page has
\* more; once pages 1..totalPages are read, their concatenation lists every
\* matching repo exactly once, in the metric's sort order.
C15_PaginationPartition ==
    scan.pages # <<>> =>
        LET n == Len(scan.pages)
            all == Flatten(scan.pages)
        IN  /\ scan.total = Cardinality(Matching(scan.filter))
            /\ scan.totalPages >= 1
            /\ scan.totalPages * 100 >= scan.total
            /\ scan.totalPages > 1 => (scan.totalPages - 1) * 100 < scan.total
            /\ \A i \in 1..n :
                    /\ Len(scan.pages[i]) <= 100
                    /\ i < scan.totalPages => Len(scan.pages[i]) = 100
            /\ n = scan.totalPages =>
                    /\ Len(all) = scan.total
                    /\ {all[i].n : i \in 1..Len(all)} = {repo[m] : m \in Matching(scan.filter)}
                    /\ \A i \in 1..(Len(all) - 1) : InOrder(scan.metric, all[i], all[i + 1])

\* Three pages read to the end, the last of them holding one repo, in the
\* order of a metric with NULL values (diskUsage).
C15_Witness ==
    /\ Len(scan.pages) = 3
    /\ scan.totalPages = 3
    /\ Len(scan.pages[3]) = 1
    /\ scan.metric \in DOMAIN metric_map
    /\ metric_map[scan.metric] = "disk_usage"
    /\ scan.pages[3][1].d = Null

\* ------------------------------------------------------------------ C18
\* A filter that is neither absent nor empty after trimming.
Supplied(x) == x # NoText /\ strip(x) # <<>>

\* The text holds the needle as a substring, letter case set aside.
Occurs(needle, text) ==
    \E i \in 0..(Len(text) - Len(needle)) :
        \A j \in 1..Len(needle) : Lower(text[i + j]) = Lower(needle[j])

\* The repos that satisfy every supplied filter of the tuple.
Satisfying(f) ==
    {m \in DOMAIN repo_latest :
        /\ Supplied(f.language) => repo_latest[m].primary_language = f.language
        /\ Supplied(f.topic) => <<m, f.topic>> \in repo_topic_latest
        /\ Supplied(f.q) =>
                \/ Occurs(strip(f.q), Str(repo[m]))
                \/ /\ f.in_description
                   /\ description[m] # NoText
                   /\ Occurs(strip(f.q), description[m])}

\* C18: countLeaderboard counts, and the pages of leaderboard list, exactly
\* the repos that satisfy every supplied filter at once (language equal,
\* topic present, q found in the name or, if asked, the description); an
\* absent or empty-after-trim filter restricts nothing.
C18_FiltersCompose ==
    scan.pages # <<>> =>
        LET all == Flatten(scan.pages) IN
        /\ scan.total = Cardinality(Satisfying(scan.filter))
        /\ Len(scan.pages) = scan.totalPages =>
                {all[i].n : i \in 1..Len(all)} = {repo[m] : m \in Satisfying(scan.filter)}

\* ------------------------------------------------------------------ C19
\* stars, stargazerCount, forks, forkCount, watchers, watchersCount,
\* diskUsage, disk_usage, trending24h, trending3d, trending7d, trending30d
RecognizedMetrics ==
    {<<115, 116, 97, 114, 115>>,
     <<115, 116, 97, 114, 103, 97, 122, 101, 114, 67, 111, 117, 110, 116>>,
     <<102, 111, 114, 107, 115>>,
     <<102, 111, 114, 107, 67, 111, 117, 110, 116>>,
     <<119, 97, 116, 99, 104, 101, 114, 115>>,
     <<119, 97, 116, 99, 104, 101, 114, 115, 67, 111, 117, 110, 116>>,
     <<100, 105, 115, 107, 85, 115, 97, 103, 101>>,
     <<100, 105, 115, 107, 95, 117, 115, 97, 103, 101>>,
     <<116, 114, 101, 110, 100, 105, 110, 103, 50, 52, 104>>,
     <<116, 114, 101, 110, 100, 105, 110, 103, 51, 100>>,
     <<116, 114, 101, 110, 100, 105, 110, 103, 55, 100>>,
     <<116, 114, 101, 110, 100, 105, 110, 103, 51, 48, 100>>}

\* C19: a leaderboard request with a valid page succeeds exactly when its
\* metric is one of the twelve recognized keys; with any other metric it
\* fails with InvalidArgument (HTTP 400), and nothing is stored in the
\* ResponseCache under the key of a request that failed.
C19_MetricValidation ==
    (resp.op \in {"api", "RepoDB"} /\ resp.page >= 1) =>
        /\ resp.status = 200 <=> resp.metric \in RecognizedMetrics
        /\ resp.metric \notin RecognizedMetrics => resp.status = 400
        /\ (resp.op = "api" /\ resp.status = 400) =>
                CacheIndex(response_cache,
                           cache_key(resp.metric, resp.page, resp.filter)) = 0

\* ------------------------------------------------------------------ C20
\* C20: a leaderboard query, static or trending, with a page number of 0
\* or less fails (it is not answered as a success) and returns no items.
C20_PageValidation ==
    (resp.op \in {"api", "RepoDB"} /\ resp.page <= 0) =>
        /\ resp.status # 200
        /\ resp.body.items = <<>>

\* ------------------------------------------------------------------ C16
\* The newStars of an item (an item without "ns" has 0 new stars).
ItemNewStars(it) == IF it.ns = Null THEN 0 ELSE it.ns

\* The base run of a window: the greatest run fetched at or before the
\* cutoff t_max - window, 0 when there is none.
BaseRunOf(window) ==
    LET t_max == Max({fetched_at[r] : r \in fetch_run})
        atOrBefore == {r \in fetch_run : fetched_at[r] <= t_max - window}
    IN  IF atOrBefore = {} THEN 0 ELSE Max(atOrBefore)

\* The segments of repo m that cover run b.
Covering(m, b) == {h \in HistOf(repo_metrics_hist, m) : b \in Interval(h)}

\* C16: a trending query takes as base run the greatest run fetched at or
\* before t_max - window (0 if none); it lists every repo with a current
\* row; the newStars of a repo with a segment covering the base run is
\* max(0, current stars - stars of that segment), which is unique; and the
\* items are sorted by newStars DESC, stars DESC, nameWithOwner ASC.
C16_TrendingDelta ==
    resp.op = "trend" =>
        /\ resp.base = BaseRunOf(trending_map[resp.metric])
        /\ {resp.items[i].n : i \in 1..Len(resp.items)} = {repo[m] : m \in DOMAIN repo_latest}
        /\ \A i \in 1..Len(resp.items) : \A m \in DOMAIN repo_latest :
                (repo[m] = resp.items[i].n /\ Covering(m, resp.base) # {}) =>
                    /\ Cardinality(Covering(m, resp.base)) = 1
                    /\ \A h \in Covering(m, resp.base) :
                            /\ resp.items[i].s = repo_latest[m].stars
                            /\ ItemNewStars(resp.items[i]) =
                                    IF repo_latest[m].stars > h.stars
                                    THEN repo_latest[m].stars - h.stars ELSE 0
        /\ \A i \in 1..(Len(resp.items) - 1) :
                InOrder(resp.metric, resp.items[i], resp.items[i + 1])

\* Runs at 0, 1d, 2d, 3d, 4d in which repo "a" had 100, 100, 120, 150 and
\* 200 stars; trending3d at the fifth run has base run 2, base stars 100
\* and 100 new stars, which puts "a" before "b" with its 150 stars.
C16_Witness ==
    /\ resp.op = "trend"
    /\ resp.metric = <<116, 114, 101, 110, 100, 105, 110, 103, 51, 100>>
    /\ fetch_run = 1..5
    /\ fetched_at = <<0, 86400, 2 * 86400, 3 * 86400, 4 * 86400>>
    /\ ingestedIn[1] = 1..5
    /\ \A r \in 1..5 : \E h \in HistOf(repo_metrics_hist, 1) :
            /\ r \in Interval(h)
            /\ h.stars = <<100, 100, 120, 150, 200>>[r]
    /\ resp.base = 2
    /\ Len(resp.items) = 2
    /\ resp.items[1].n = Name(<<97>>, <<>>)
    /\ resp.items[1].s = 200
    /\ resp.items[1].ns = 100
    /\ resp.items[2].s = 150

\* ------------------------------------------------------------------ C17
\* The run in which the first segment of repo m starts.
FirstObserved(m) == Min({h.start_run_id : h \in HistOf(repo_metrics_hist, m)})

\* C17: in the answer to a trending query no repo has negative newStars,
\* and a repo whose first segment starts after the base run (every repo
\* when the base run is 0) has newStars 0.
C17_TrendingFloor ==
    resp.op = "trend" =>
        \A i \in 1..Len(resp.items) :
            /\ ItemNewStars(resp.items[i]) >= 0
            /\ \A m \in DOMAIN repo_latest :
                    (repo[m] = resp.items[i].n /\ FirstObserved(m) > resp.base) =>
                        ItemNewStars(resp.items[i]) = 0

\* A repo that lost stars since the base run, and a repo first observed
\* after a base run that exists, in one answer.
C17_Witness ==
    /\ resp.op = "trend"
    /\ resp.base > 0
    /\ \E i \in 1..Len(resp.items) : \E m \in DOMAIN repo_latest :
            /\ repo[m] = resp.items[i].n
            /\ \E h \in Covering(m, resp.base) : h.stars > repo_latest[m].stars
            /\ resp.items[i].ns = Null
    /\ \E i \in 1..Len(resp.items) : \E m \in DOMAIN repo_latest :
            /\ repo[m] = resp.items[i].n
            /\ FirstObserved(m) > resp.base
            /\ resp.items[i].ns = Null

\* ------------------------------------------------------------------ C21
\* C21: after any sequence of get and set calls the cache holds no more
\* entries than its capacity; a get that hits leaves its key the most
\* recent entry; and a set that evicts removes the one entry whose last
\* use (a get that hit, or a set) is the oldest.
C21_LRUDiscipline ==
    /\ Len(response_cache) <= CacheCapacity
    /\ (resp.op = "get" /\ resp.hit) =>
            response_cache[Len(response_cache)].key = resp.key
    /\ (resp.op = "set" /\ resp.evicted # {}) => resp.evicted = {resp.oldest}

\* ------------------------------------------------------------------ C22
\* C22: whatever the interleaving of the handler threads, a get returns
\* the value stored under its key or a miss; it never fails because its
\* key was evicted between the membership test and the promotion.
C22_GetNeverFails ==
    resp.op = "LRUCache.get" =>
        \/ resp.outcome = "miss"
        \/ resp.outcome = "hit" /\ resp.value \in CacheValues

\* ------------------------------------------------------------------ C23
\* What a reader of the first page of the leaderboard of stars gets from
\* database d.
ReadOf(d) == leaderboard(d, <<115, 116, 97, 114, 115>>, 1, NoFilter).items

\* C23: a query that runs while a batch is being ingested sees the batch
\* whole or not at all: its answer is the one the database gave before the
\* batch or the one it gives after the batch, never that of a state with
\* the batch's repo rows, renames and deletions but without its
\* repo_latest, history and topic rows.
C23_BatchAllOrNothing ==
    (resp.op = "read" /\ pending.phase = "tx1") =>
        \/ resp.items = ReadOf(pending.before)
        \/ resp.items = ReadOf(Tx2(DB, pending.fresh, run_id).db)

\* ------------------------------------------------------------------ C27
\* Row g is row h, possibly with a later end.
Continues(h, g) ==
    /\ g.repo_id = h.repo_id
    /\ g.start_run_id = h.start_run_id
    /\ QuadOf(g) = QuadOf(h)
    /\ g.end_run_id >= h.end_run_id

\* C27: in every step, a step of a pass interrupted between two batches or
\* between the two transactions of a batch included, every row of
\* repo_metrics_hist stays, with the same start_run_id and the same four
\* metrics and an end_run_id that is not smaller.
C27_HistoryMonotone ==
    [][\A h \in repo_metrics_hist : \E g \in repo_metrics_hist' : Continues(h, g)]_vars

\* A segment has been extended in a database in which an earlier pass was
\* interrupted between the two transactions of a batch, leaving a repo row
\* that never got a repo_latest row.
C27_Witness ==
    /\ \E h \in repo_metrics_hist : h.end_run_id > h.start_run_id
    /\ \E m \in DOMAIN repo : m \notin DOMAIN repo_latest /\ m \notin displaced
    /\ last.outcome = "ok"

\* ------------------------------------------------------------------ C24
\* The batch of the last call, handed to a new engine a pass later.
Reingested == Upsert(DB, Null, {}, last.applied, now + 86400)

\* C24: in every state reached by a batch that was applied, ingesting the
\* same batch again in the next pass is applied too and rewrites and
\* deletes nothing: the names of all repo rows, the set of repos with a
\* repo_latest row and the topic rows are those the first ingestion left.
C24_RenameStable ==
    last.outcome = "ok" =>
        /\ Reingested.outcome = "ok"
        /\ Reingested.db.repo = repo
        /\ DOMAIN Reingested.db.repo_latest = DOMAIN repo_latest
        /\ Reingested.db.repo_topic_latest = repo_topic_latest

\* The last batch resolved a name conflict: one of its snapshots holds its
\* name, and the repo that held the name before is renamed and has lost
\* its repo_latest row.
C24_Witness ==
    /\ last.outcome = "ok"
    /\ \E i \in 1..Len(last.applied) : \E m \in displaced :
            /\ repo[last.applied[i].databaseId] = last.applied[i].nameWithOwner
            /\ repo[m] = RenamedName(last.applied[i].nameWithOwner, m,
                                     last.applied[i].databaseId)
            /\ m \notin DOMAIN repo_latest

\* ------------------------------------------------------------------ C26
\* The topic names that node n of a page carries.
Carried(n) == {n.repositoryTopics[k] : k \in 1..Len(n.repositoryTopics)} \ {NoText}

TopicsIn(tbl, m) == {p[2] : p \in {x \in tbl : x[1] = m}}

\* C26: in every step that applies a page, the topic rows of each repo of
\* the page are afterwards exactly the names its node carries, each once,
\* and the topic rows of every repo that is not in the page and does not
\* hold a name the page takes are as before.
C26_TopicRefresh ==
    [][(pending'.phase = "called" /\ last'.outcome = "ok") =>
          /\ \A i \in 1..Len(pending'.nodes) :
                (\E k \in 1..Len(last'.applied) :
                        last'.applied[k].databaseId = pending'.nodes[i].databaseId)
                    => TopicsIn(repo_topic_latest', pending'.nodes[i].databaseId)
                            = Carried(pending'.nodes[i])
          /\ \A m \in RepoIds :
                (/\ \A k \in 1..Len(last'.applied) :
                        /\ last'.applied[k].databaseId # m
                        /\ m \in DOMAIN repo => repo[m] # last'.applied[k].nameWithOwner)
                    => TopicsIn(repo_topic_latest', m) = TopicsIn(repo_topic_latest, m)]_vars

\* A page was applied whose node names a topic twice and drops the topics
\* the repo had; the rows of the repo are that one topic, and another repo,
\* not in the page, has topic rows.
C26_Witness ==
    /\ pending.phase = "called"
    /\ last.outcome = "ok"
    /\ Len(pending.nodes) = 1
    /\ pending.nodes[1].repositoryTopics = <<<<116>>, <<116>>>>
    /\ TopicsIn(repo_topic_latest, pending.nodes[1].databaseId) = {<<116>>}
    /\ Cardinality(ingestedIn[pending.nodes[1].databaseId]) > 1
    /\ \E m \in RepoIds : m # pending.nodes[1].databaseId /\ TopicsIn(repo_topic_latest, m) # {}

\* ------------------------------------------------------------------ C25
\* C25: in every state, a response the server returns was computed from the
\* database file that is live, the live file is replaced only while the
\* server is stopped, and when the server runs after a deployment every
\* cached response was computed from the live file.
C25_CacheCoherent ==
    /\ resp.op = "serve" => resp.version = live.file
    /\ live.step = "swap" => live.server = "stopped"
    /\ (live.server = "up" /\ live.step = "idle") =>
            \A i \in 1..Len(response_cache) : response_cache[i].value = live.file

\* ------------------------------------------------------------------ C28
\* C28: a page-through holds at most 1000 results; in every step that
\* follows a page-through with results, the next query uses the larger of
\* current_min_stars + 1 and the stars of the last result, which is more
\* than current_min_stars; and the loop is left exactly after a
\* page-through without results, with the engine closed, for the deployment.
C28_CursorAdvance ==
    [][/\ crawl.pc \in {"post", "paged"} => crawl.batch_len <= max_results
       /\ (crawl.pc = "paged" /\ crawl.batch_len > 0) =>
            /\ crawl'.pc = "post"
            /\ crawl'.current_min_stars =
                    Max({crawl.current_min_stars + 1, crawl.last_repo_stars})
            /\ crawl'.current_min_stars > crawl.current_min_stars
       /\ (crawl.pc = "paged" /\ crawl.batch_len = 0) =>
            /\ crawl'.pc = "deploy"
            /\ crawl'.engine = "closed"
       /\ (crawl.pc # "deploy" /\ crawl'.pc = "deploy") =>
            (crawl.pc = "paged" /\ crawl.batch_len = 0)]_vars

\* The cursor has moved, by one and by more than one, the loop has ended
\* and the deployment has run.
C28_Witness ==
    /\ crawl.pc = "deploy"
    /\ crawl.current_min_stars = MIN_STARS + MaxStarSteps + 1
    /\ crawl.engine = "closed"
    /\ live.file = 1
    /\ live.step = "idle"

\* ------------------------------------------------------------------ C29
\* C29: in every state, the POSTs of one execute_query call that ended with
\* a status 500..504 or a network error number 10 at most; the call goes
\* on while they are fewer and raises "Max retries exceeded." at the
\* tenth; and after an exception has left execute_query the engine is not
\* closed and nothing has been deployed.
C29_BoundedRetry ==
    crawl.pc # "idle" =>
        /\ crawl.failed <= max_attempts
        /\ crawl.pc = "post" => crawl.failed < max_attempts
        /\ (crawl.pc = "aborted" /\ crawl.cause = "Max retries exceeded.")
                => crawl.failed = max_attempts
        /\ crawl.pc = "aborted" => (live = NotDeployed /\ crawl.engine = "open")

\* The tenth failed POST, a network error, of a call that came after a
\* batch was handed to the engine: the call has raised.
C29_Witness ==
    /\ crawl.pc = "aborted"
    /\ crawl.response = "RequestException"
    /\ crawl.cause = "Max retries exceeded."
    /\ crawl.failed = max_attempts
    /\ crawl.current_min_stars > MIN_STARS

\* ------------------------------------------------------------------ C30
\* C30: in every state, an exception that has left execute_query was not
\* caused by a response that signals an exhausted or a low quota.
C30_RateLimitNotSurfaced ==
    crawl.pc = "aborted" => crawl.cause \notin QuotaSignals \cup {"remaining < 10"}

\* ------------------------------------------------------------------ C31
\* C31: in every state, each repo id the engine holds as processed in the
\* pass was carried by a batch of the pass that was applied, so that the
\* snapshots of a batch that failed are not skipped as duplicates when they
\* are ingested again later in the pass.
C31_ProcessedFollowsCommits ==
    \A m \in processed : run_id \in ingestedIn[m]

====
